---- MODULE Spec2Model ----
(***************************************************************************)
(* The in-memory job service of the PDF accounting importer                *)
(* (services/job_service.py) and its background worker                     *)
(* (services/job_worker.py), for one job of the service.                   *)
(*                                                                         *)
(*   Spec    the service as it is built: add_file stores 4-field payload   *)
(*           tuples, the worker unpacks 3 fields.                          *)
(*   SpecW   process_job_files run over payloads of the 3-field shape its  *)
(*           loop unpacks (the shape its annotation declares); everything  *)
(*           else as in Spec.                                              *)
(*   SpecFn  the pure function _cfg_mismatch applied to drawn inputs.      *)
(***************************************************************************)
EXTENDS Integers, Sequences, FiniteSets, TLC

\* ---------------------------------------------------------------- bounds
\* files attached to the job
MaxFiles == 2
\* calls of start_processing that start a thread, in Spec and in SpecW
MaxStarts == 2
MaxPasses == 1
\* longest reference string and longest money string drawn in SpecRow
MaxRefLen == 3
MaxMoneyLen == 4
\* most keywords of one table counted in a text or a filename (SpecClassify)
MaxSigs == 2

\* ------------------------------------------------------ program constants
PayloadTupleLen == 4
UnpackLen == 3

VARIABLES
    job,      \* self._jobs[job_id]
    rows,     \* self._rows[job_id]
    threads,  \* self._threads and the locals of each _run_job thread
    spawned,  \* number of threads started so far
    hist,     \* history: what a later state can no longer tell
    fn_in,    \* SpecFn: the arguments drawn
    fn_out    \* SpecFn: the value returned

vars == <<job, rows, threads, spawned, hist, fn_in, fn_out>>

\* --------------------------------------------------------------- helpers

\* Python dict.update on a record: keys of the patch replace the old values
DictUpdate(d, patch) ==
    [k \in DOMAIN d |-> IF k \in DOMAIN patch THEN patch[k] ELSE d[k]]

\* patch.pop(key, None)
DictPop(patch, key) == [k \in (DOMAIN patch) \ {key} |-> patch[k]]

\* ------------------------------------------------- company / client config
Companies == {"RABBIT", "SHD", "TOPONE"}

CLIENT_TAX_IDS ==
    [c \in Companies |->
        CASE c = "RABBIT" -> "0105561071873"
          [] c = "SHD"    -> "0105563022918"
          [] c = "TOPONE" -> "0105565027615"]

\* dict order of CLIENT_TAX_IDS
ClientOrder == <<"RABBIT", "SHD", "TOPONE">>

TAXID_TO_COMPANY(tax) ==
    IF \E c \in Companies : CLIENT_TAX_IDS[c] = tax
    THEN CHOOSE c \in Companies : CLIENT_TAX_IDS[c] = tax
    ELSE ""

\* ------------------------------------------------------------ input sets
\* A filename is modelled by the set of upper-case keywords it contains.
Filenames == { {}, {"SHD", "SHOPEE"} }

\* A filter configuration as a caller passes it (main.py _normalize_cfg plus
\* the strictMode flag of the FilterConfig).
CfgInputs ==
    { [client_tags |-> {"RABBIT"}, client_tax_ids |-> <<>>, platforms |-> {},
       strictMode |-> TRUE] }

NoCfg == [none |-> TRUE]

\* What text acquisition yields for a file: the embedded text layer and the
\* OCR result, each either empty or a text; tax is the set of known client
\* tax ids the text contains.
NoText == [empty |-> TRUE, tax |-> {}]
Texts == { NoText, [empty |-> FALSE, tax |-> {"0105563022918"}] }

FileTerminal == {"done", "needs_review", "error"}

\* ------------------------------------------------------------ job_service
\* _safe_cfg keeps three keys only
_safe_cfg(cfg) ==
    IF cfg = NoCfg
    THEN [client_tags |-> {}, client_tax_ids |-> <<>>, platforms |-> {}]
    ELSE [client_tags |-> cfg.client_tags,
          client_tax_ids |-> cfg.client_tax_ids,
          platforms |-> cfg.platforms]

NewJob(cfg) ==
    [state |-> "queued",
     total_files |-> 0, processed_files |-> 0,
     ok_files |-> 0, review_files |-> 0, error_files |-> 0,
     cfg |-> _safe_cfg(cfg),
     files |-> <<>>,
     payloads |-> <<>>,
     cancel |-> FALSE,
     last_error |-> ""]

NewFile(filename) ==
    [filename |-> filename, platform |-> "unknown", company |-> "",
     state |-> "queued", message |-> "", rows_count |-> 0]

IdleThread ==
    [pc |-> "idle", payloads |-> <<>>,
     allowed_companies |-> {}, allowed_platforms |-> {}, strict_mode |-> FALSE,
     cfg |-> _safe_cfg(NoCfg),
     idx |-> 0, seq |-> 1,
     ok_files |-> 0, review_files |-> 0, error_files |-> 0, processed |-> 0,
     company |-> "", platform_u |-> "UNKNOWN",
     patch |-> [state |-> "queued"],
     exc |-> "",
     raised |-> {}, ended |-> {}]

Workers == 1..(IF MaxStarts >= MaxPasses THEN MaxStarts ELSE MaxPasses)

\* add_file without its state check
add_file_in_any_state(filename, n) ==
    /\ Len(job.files) < MaxFiles
    /\ job' = [job EXCEPT
                 !.total_files = @ + 1,
                 !.payloads = Append(@, [filename |-> filename, len |-> n]),
                 !.files = Append(@, NewFile(filename))]
    /\ UNCHANGED <<rows, threads, spawned, hist, fn_in, fn_out>>

\* add_file: n is the number of fields of the payload tuple that is stored
add_file(filename, n) ==
    IF job.state \in {"processing", "done"}
    THEN UNCHANGED vars
    ELSE /\ Len(job.files) < MaxFiles
         /\ job' = [job EXCEPT
                      !.total_files = @ + 1,
                      !.payloads = Append(@, [filename |-> filename, len |-> n]),
                      !.files = Append(@, NewFile(filename))]
         /\ UNCHANGED <<rows, threads, spawned, hist, fn_in, fn_out>>

\* threading.Thread(target=self._run_job).start(): the k-th start of the
\* job runs as thread k
start_processing(cfg, max_starts) ==
    LET j1 == IF cfg # NoCfg THEN [job EXCEPT !.cfg = _safe_cfg(cfg)] ELSE job
    IN  IF j1.state \in {"processing", "done", "cancelled"}
        THEN /\ job' = j1
             /\ UNCHANGED <<rows, threads, spawned, hist, fn_in, fn_out>>
        ELSE /\ spawned < max_starts
             /\ job' = [j1 EXCEPT !.state = "processing",
                                  !.cancel = FALSE,
                                  !.last_error = ""]
             /\ spawned' = spawned + 1
             /\ threads' = [threads EXCEPT ![spawned + 1] =
                               [IdleThread EXCEPT !.pc = "get_payloads"]]
             /\ hist' = [hist EXCEPT !.cancel_at = 0]
             /\ UNCHANGED <<rows, fn_in, fn_out>>

\* position of the file a worker is processing, 0 when there is none
InFlight ==
    LET P == {i \in 1..Len(job.files) : job.files[i].state = "processing"}
    IN  IF P = {} THEN 0 ELSE CHOOSE i \in P : \A k \in P : k <= i

cancel_job ==
    IF job.state \notin {"queued", "processing"}
    THEN UNCHANGED vars
    ELSE /\ job' = [job EXCEPT !.cancel = TRUE, !.state = "cancelled"]
         /\ hist' = [hist EXCEPT !.cancel_at = InFlight]
         /\ UNCHANGED <<rows, threads, spawned, fn_in, fn_out>>

update_job(j, patch) ==
    DictUpdate(j, IF j.state = "cancelled" THEN DictPop(patch, "state")
                  ELSE patch)

update_file(j, index, patch) ==
    IF 1 <= index /\ index <= Len(j.files)
    THEN [j EXCEPT !.files[index] = DictUpdate(@, patch)]
    ELSE j

append_rows(rs, new) == rs \o new

get_payloads(j) == j.payloads

\* ------------------------------------------------------------- job_worker
\* first element of the sequence order that satisfies the test, else ""
RECURSIVE FirstOf(_, _)
FirstOf(order, S) ==
    IF order = <<>> THEN ""
    ELSE IF Head(order) \in S THEN Head(order)
    ELSE FirstOf(Tail(order), S)

\* str.upper().strip() on the strings the model draws
UpperStrip(s) ==
    CASE s = "rabbit" -> "RABBIT"
      [] s = " SHD "  -> "SHD"
      [] s = "shopee" -> "SHOPEE"
      [] s = "unknown" -> "UNKNOWN"
      [] s = " "      -> ""
      [] OTHER        -> s

_detect_client_tax_id(text, filename, cfg) ==
    LET inText == FirstOf(ClientOrder,
                          {c \in Companies : CLIENT_TAX_IDS[c] \in text.tax})
        inName == FirstOf(ClientOrder, filename)
    IN  IF inText # "" THEN CLIENT_TAX_IDS[inText]
        ELSE IF Len(cfg.client_tax_ids) = 1 /\ cfg.client_tax_ids[1] # ""
             THEN cfg.client_tax_ids[1]
        ELSE IF inName # "" THEN CLIENT_TAX_IDS[inName]
        ELSE ""

_company_from_tax_id(client_tax_id, filename) ==
    IF client_tax_id # "" /\ TAXID_TO_COMPANY(client_tax_id) # ""
    THEN TAXID_TO_COMPANY(client_tax_id)
    ELSE FirstOf(ClientOrder, filename)

_detect_platform_hint_from_filename(filename) ==
    IF filename \cap {"SPX", "RCSPX", "SHOPEE EXPRESS", "SHOPEE-EXPRESS"} # {}
    THEN "SPX"
    ELSE IF "SHOPEE" \in filename THEN "SHOPEE"
    ELSE IF filename \cap {"LAZADA", "LAZ"} # {} THEN "LAZADA"
    ELSE IF filename \cap {"TIKTOK", "TTS", "TTSHOP"} # {} THEN "TIKTOK"
    ELSE IF filename \cap {"FACEBOOK", "META", "GOOGLE", "ADS"} # {} THEN "ADS"
    ELSE IF "HASHTAG" \in filename THEN "HASHTAG"
    ELSE ""

_platform_upper(platform, filename) ==
    IF platform \in {"shopee", "spx", "lazada", "tiktok", "ads", "facebook",
                     "hashtag"}
    THEN CASE platform = "shopee" -> "SHOPEE"
           [] platform = "spx" -> "SPX"
           [] platform = "lazada" -> "LAZADA"
           [] platform = "tiktok" -> "TIKTOK"
           [] platform = "ads" -> "ADS"
           [] platform = "facebook" -> "FACEBOOK"
           [] platform = "hashtag" -> "HASHTAG"
    ELSE IF _detect_platform_hint_from_filename(filename) # ""
         THEN _detect_platform_hint_from_filename(filename)
    ELSE CASE platform = "" -> "UNKNOWN"
           [] platform = "other" -> "OTHER"
           [] platform = "unknown" -> "UNKNOWN"
           [] OTHER -> platform

\* _get_job_filters on the snapshot get_job returns: the job record has no
\* top-level filter keys, so both lists come from job.cfg
_get_job_filters(j) ==
    [allowed_companies |-> j.cfg.client_tags,
     allowed_platforms |-> j.cfg.platforms,
     strict_mode |-> IF "strictMode" \in DOMAIN j.cfg
                     THEN j.cfg.strictMode ELSE FALSE]

_get_job_cfg(j) == j.cfg

\* _cfg_mismatch with the unknown-value rule of should_review_by_cfg: an
\* unknown value fails a non-empty allow-list whatever strict_mode says
cfg_mismatch_ignoring_strict(allowed_companies, allowed_platforms, strict_mode, company, platform_u) ==
    LET c == UpperStrip(company)
        p == UpperStrip(platform_u)
    IN  IF allowed_companies = {} /\ allowed_platforms = {}
        THEN [mismatch |-> FALSE, reason |-> ""]
        ELSE IF allowed_companies # {} /\ (c = "" \/ c \notin allowed_companies)
        THEN [mismatch |-> TRUE, reason |-> "company"]
        ELSE IF allowed_platforms # {}
                /\ (p = "" \/ p = "UNKNOWN" \/ p \notin allowed_platforms)
        THEN [mismatch |-> TRUE, reason |-> "platform"]
        ELSE [mismatch |-> FALSE, reason |-> ""]

_cfg_mismatch(allowed_companies, allowed_platforms, strict_mode, company, platform_u) ==
    LET c == UpperStrip(company)
        p == UpperStrip(platform_u)
        has_company_filter == allowed_companies # {}
        has_platform_filter == allowed_platforms # {}
    IN  IF ~has_company_filter /\ ~has_platform_filter
        THEN [mismatch |-> FALSE, reason |-> ""]
        ELSE IF has_company_filter /\ c # "" /\ c \notin allowed_companies
        THEN [mismatch |-> TRUE, reason |-> "company not in allowed companies"]
        ELSE IF has_company_filter /\ c = "" /\ strict_mode
        THEN [mismatch |-> TRUE, reason |-> "company=unknown (strict mode)"]
        ELSE IF has_platform_filter /\ (p # "" /\ p # "UNKNOWN")
                /\ p \notin allowed_platforms
        THEN [mismatch |-> TRUE, reason |-> "platform not in allowed platforms"]
        ELSE IF has_platform_filter /\ ~(p # "" /\ p # "UNKNOWN")
                /\ strict_mode
        THEN [mismatch |-> TRUE, reason |-> "platform=unknown (strict mode)"]
        ELSE [mismatch |-> FALSE, reason |-> ""]

\* extract_row_from_text as declared, and as process_job_files calls it
ExtractParams == {"text", "filename"}
ExtractCallKeywords == {"filename", "client_tax_id", "cfg"}

extract_call_accepted == ExtractCallKeywords \subseteq ExtractParams

\* status decision of the full-extraction branch
StatusDecision(is_mismatch, errors) ==
    IF is_mismatch
    THEN [status |-> "NEEDS_REVIEW", file_state |-> "needs_review",
          counter |-> "review_files"]
    ELSE IF errors # {}
    THEN [status |-> "NEEDS_REVIEW", file_state |-> "needs_review",
          counter |-> "review_files"]
    ELSE [status |-> "OK", file_state |-> "done", counter |-> "ok_files"]

\* a row of the job's row list; file, by and had_text are history fields (the
\* position of the file the row was made for, the thread that appended it,
\* whether text acquisition had yielded a non-empty text)
Row(seq, company, filename, platform_u, status, errors, file, by, had_text) ==
    [A_seq |-> seq, A_company_name |-> company, source_file |-> filename,
     platform |-> platform_u, status |-> status, errors |-> errors,
     file |-> file, by |-> by, had_text |-> had_text]

FilePatch(state, platform, company, message, rows_count) ==
    [state |-> state, platform |-> platform, company |-> company,
     message |-> message, rows_count |-> rows_count]

\* ---------------------------------------------- process_job_files, _run_job
\* Each action is the local computation up to and including one acquisition
\* of the service lock.  pc of a thread:
\*   get_payloads, get_filters, get_cfg   the three reads before the loop
\*   loop                                 head of the for statement
\*   try                                  inside the per-file try block
\*   update_file, update_counters         the two writes that end a file
\*   run_post, run_except                 the two exits of _run_job

GetPayloads(t) ==
    /\ threads[t].pc = "get_payloads"
    /\ threads' = [threads EXCEPT ![t].payloads = get_payloads(job),
                                  ![t].pc = "get_filters"]
    /\ UNCHANGED <<job, rows, spawned, hist, fn_in, fn_out>>

GetFilters(t) ==
    /\ threads[t].pc = "get_filters"
    /\ threads' = [threads EXCEPT
          ![t].allowed_companies = _get_job_filters(job).allowed_companies,
          ![t].allowed_platforms = _get_job_filters(job).allowed_platforms,
          ![t].strict_mode = _get_job_filters(job).strict_mode,
          ![t].pc = "get_cfg"]
    /\ UNCHANGED <<job, rows, spawned, hist, fn_in, fn_out>>

GetCfg(t) ==
    /\ threads[t].pc = "get_cfg"
    /\ threads' = [threads EXCEPT ![t].cfg = _get_job_cfg(job),
                                  ![t].pc = "loop"]
    /\ UNCHANGED <<job, rows, spawned, hist, fn_in, fn_out>>

\* for idx, (filename, content_type, data) in enumerate(payloads): the
\* payload tuple does not have the number of fields the target list names
UnpackFails(t) ==
    LET th == threads[t] IN
    /\ th.pc = "loop"
    /\ th.idx < Len(th.payloads)
    /\ th.payloads[th.idx + 1].len # UnpackLen
    /\ threads' = [threads EXCEPT ![t].exc = "ValueError",
                                  ![t].pc = "run_except"]
    /\ UNCHANGED <<job, rows, spawned, hist, fn_in, fn_out>>

\* the unpacking succeeds; update_file(job_id, idx, {"state": "processing"})
BeginFile(t) ==
    LET th == threads[t] IN
    /\ th.pc = "loop"
    /\ th.idx < Len(th.payloads)
    /\ th.payloads[th.idx + 1].len = UnpackLen
    /\ job' = update_file(job, th.idx + 1, [state |-> "processing"])
    /\ threads' = [threads EXCEPT ![t].pc = "try"]
    /\ UNCHANGED <<rows, spawned, hist, fn_in, fn_out>>

\* the except branch without its append_rows call
ExceptBranch_no_row(t, company, platform_u, exc) ==
    LET th == threads[t]
    IN  /\ threads' = [threads EXCEPT
              ![t].error_files = @ + 1,
              ![t].seq = @ + 1,
              ![t].company = company,
              ![t].platform_u = platform_u,
              ![t].patch = FilePatch("error", platform_u, company,
                                     <<"Error", exc>>, 1),
              ![t].raised = @ \cup {th.idx + 1},
              ![t].pc = "update_file"]
        /\ UNCHANGED <<job, rows, spawned, hist, fn_in, fn_out>>

\* except Exception: count the error, append one ERROR row
ExceptBranch(t, company, platform_u, exc) ==
    LET th == threads[t]
        err_row == Row(th.seq, company, th.payloads[th.idx + 1].filename,
                       platform_u, "ERROR", {exc}, th.idx + 1, t, TRUE)
    IN  /\ rows' = append_rows(rows, <<err_row>>)
        /\ threads' = [threads EXCEPT
              ![t].error_files = @ + 1,
              ![t].seq = @ + 1,
              ![t].company = company,
              ![t].platform_u = platform_u,
              ![t].patch = FilePatch("error", platform_u, company,
                                     <<"Error", exc>>, 1),
              ![t].raised = @ \cup {th.idx + 1},
              ![t].pc = "update_file"]
        /\ UNCHANGED <<job, spawned, hist, fn_in, fn_out>>

\* the no-text branch counting the file as an error, with an ERROR row
NoTextBranch_as_error(t, company) ==
    LET th == threads[t]
        filename == th.payloads[th.idx + 1].filename
        row_min == Row(th.seq, company, filename, "UNKNOWN", "ERROR",
                       {"no text found"}, th.idx + 1, t, FALSE)
    IN  /\ rows' = append_rows(rows, <<row_min>>)
        /\ threads' = [threads EXCEPT
              ![t].seq = @ + 1,
              ![t].error_files = @ + 1,
              ![t].company = company,
              ![t].patch = FilePatch("error", "UNKNOWN", company,
                                     <<"no text">>, 1),
              ![t].pc = "update_file"]
        /\ UNCHANGED <<job, spawned, hist, fn_in, fn_out>>

\* if not text: one minimal NEEDS_REVIEW row
NoTextBranch(t, company) ==
    LET th == threads[t]
        filename == th.payloads[th.idx + 1].filename
        hint == _detect_platform_hint_from_filename(filename)
        platform_u == IF hint # "" THEN hint ELSE "UNKNOWN"
        mm == _cfg_mismatch(th.allowed_companies, th.allowed_platforms,
                            th.strict_mode, company, platform_u)
        errors == {"no text found"}
                  \cup (IF mm.mismatch THEN {mm.reason} ELSE {})
        row_min == Row(th.seq, company, filename, platform_u, "NEEDS_REVIEW",
                       errors, th.idx + 1, t, FALSE)
        message == IF mm.mismatch THEN <<"no text", mm.reason>>
                   ELSE <<"no text">>
    IN  /\ rows' = append_rows(rows, <<row_min>>)
        /\ threads' = [threads EXCEPT
              ![t].seq = @ + 1,
              ![t].review_files = @ + 1,
              ![t].company = company,
              ![t].platform_u = platform_u,
              ![t].patch = FilePatch("needs_review", platform_u, company,
                                     message, 1),
              ![t].pc = "update_file"]
        /\ UNCHANGED <<job, spawned, hist, fn_in, fn_out>>

\* else: full extraction, entered when extract_row_from_text returns
FullBranch(t, company) ==
    LET th == threads[t]
        filename == th.payloads[th.idx + 1].filename
    IN  \E platform \in {"shopee", "lazada", "unknown"},
           errs \in SUBSET {"doc_date"}, wallet \in BOOLEAN :
        LET platform_u == _platform_upper(platform, filename)
            mm == _cfg_mismatch(th.allowed_companies, th.allowed_platforms,
                                th.strict_mode, company, platform_u)
            merged == errs \cup (IF ~wallet /\ platform_u = "SHOPEE"
                                 THEN {"wallet"} ELSE {})
            d == StatusDecision(mm.mismatch, merged)
            row == Row(th.seq, company, filename, platform_u, d.status,
                       merged \cup (IF mm.mismatch THEN {mm.reason} ELSE {}),
                       th.idx + 1, t, TRUE)
            message == IF mm.mismatch THEN <<mm.reason>>
                       ELSE IF merged # {} THEN <<"check fields">> ELSE <<>>
        IN  /\ rows' = append_rows(rows, <<row>>)
            /\ threads' = [threads EXCEPT
                  ![t].seq = @ + 1,
                  ![t].review_files =
                      IF d.counter = "review_files" THEN @ + 1 ELSE @,
                  ![t].ok_files = IF d.counter = "ok_files" THEN @ + 1 ELSE @,
                  ![t].company = company,
                  ![t].platform_u = platform_u,
                  ![t].patch = FilePatch(d.file_state, platform_u, company,
                                         message, 1),
                  ![t].pc = "update_file"]
            /\ UNCHANGED <<job, spawned, hist, fn_in, fn_out>>

\* the try block of one file up to its append_rows: text acquisition
\* (embedded text layer, else the OCR of a temp file; writing the temp file
\* is taken to succeed), then one of the branches
TryBody(t) ==
    LET th == threads[t]
        filename == th.payloads[th.idx + 1].filename
    IN  /\ th.pc = "try"
        /\ \E emb \in Texts, ocr \in Texts :
              LET text == IF ~emb.empty THEN emb ELSE ocr
                  client_tax_id ==
                      _detect_client_tax_id(text, filename, th.cfg)
                  company == _company_from_tax_id(client_tax_id, filename)
              IN  IF text.empty
                  THEN NoTextBranch(t, company)
                  ELSE IF extract_call_accepted
                  THEN FullBranch(t, company)
                  ELSE ExceptBranch(t, company, "UNKNOWN", "TypeError")

\* the update_file that ends _append_and_update_file / the except branch
UpdateFile(t) ==
    LET th == threads[t] IN
    /\ th.pc = "update_file"
    /\ job' = update_file(job, th.idx + 1, th.patch)
    /\ threads' = [threads EXCEPT ![t].ended = @ \cup {th.idx + 1},
                                  ![t].pc = "update_counters"]
    /\ UNCHANGED <<rows, spawned, hist, fn_in, fn_out>>

\* processed += 1; update_job with the worker's local counters
UpdateCounters(t) ==
    LET th == threads[t] IN
    /\ th.pc = "update_counters"
    /\ job' = update_job(job, [processed_files |-> th.processed + 1,
                               ok_files |-> th.ok_files,
                               review_files |-> th.review_files,
                               error_files |-> th.error_files])
    /\ threads' = [threads EXCEPT ![t].processed = @ + 1,
                                  ![t].idx = @ + 1,
                                  ![t].company = "",
                                  ![t].platform_u = "UNKNOWN",
                                  ![t].patch = IdleThread.patch,
                                  ![t].pc = "loop"]
    /\ UNCHANGED <<rows, spawned, hist, fn_in, fn_out>>

\* after the loop: update_job(job_id, {"state": final_state})
FinalState(t) ==
    LET th == threads[t] IN
    /\ th.pc = "loop"
    /\ th.idx = Len(th.payloads)
    /\ job' = update_job(job, [state |-> IF th.error_files = 0
                                         THEN "done" ELSE "error"])
    /\ threads' = [threads EXCEPT ![t].pc = "run_post"]
    /\ UNCHANGED <<rows, spawned, hist, fn_in, fn_out>>

\* a thread that has ended: its locals are gone; the payload snapshot it was
\* given and its history fields are kept for the record
Finished(th) ==
    [IdleThread EXCEPT !.pc = "finished", !.payloads = th.payloads,
                       !.raised = th.raised, !.ended = th.ended]

\* _run_job after process_job_files returned
RunJobReturn(t) ==
    /\ threads[t].pc = "run_post"
    /\ job' = IF job.state # "cancelled" /\ job.state = "processing"
              THEN [job EXCEPT !.state = IF job.error_files = 0
                                         THEN "done" ELSE "error"]
              ELSE job
    /\ threads' = [threads EXCEPT ![t] = Finished(threads[t])]
    /\ UNCHANGED <<rows, spawned, hist, fn_in, fn_out>>

\* _run_job: except Exception
RunJobExcept(t) ==
    /\ threads[t].pc = "run_except"
    /\ job' = [job EXCEPT !.state = "error", !.last_error = threads[t].exc]
    /\ threads' = [threads EXCEPT ![t] = Finished(threads[t])]
    /\ UNCHANGED <<rows, spawned, hist, fn_in, fn_out>>

\* ------------------------------------------------------------------ _cfg_mismatch applied
NoResult == [none |-> TRUE]

FnInputs ==
    [allowed_companies : {{}, {"RABBIT"}, {"RABBIT", "SHD"}},
     allowed_platforms : {{}, {"SHOPEE"}},
     strict_mode : BOOLEAN,
     company : {"", " ", "RABBIT", "rabbit", "SHD", "TOPONE"},
     platform_u : {"", "UNKNOWN", "unknown", "SHOPEE", "shopee", "LAZADA"}]

ApplyCfgMismatch ==
    /\ fn_out = NoResult
    /\ fn_out' = _cfg_mismatch(fn_in.allowed_companies, fn_in.allowed_platforms,
                               fn_in.strict_mode, fn_in.company,
                               fn_in.platform_u)
    /\ UNCHANGED <<job, rows, threads, spawned, hist, fn_in>>

\* ---------------------------------------------------------- specifications
InitService ==
    /\ \E cfg \in CfgInputs \cup {NoCfg} : job = NewJob(cfg)
    /\ rows = <<>>
    /\ threads = [t \in Workers |-> IdleThread]
    /\ spawned = 0
    /\ hist = [cancel_at |-> 0]

Init ==
    /\ InitService
    /\ fn_in = NoResult
    /\ fn_out = NoResult

\* the calls a client of the service can make at any time
ServiceCalls(n, max_starts) ==
    \/ \E filename \in Filenames : add_file(filename, n)
    \/ \E cfg \in CfgInputs \cup {NoCfg} : start_processing(cfg, max_starts)
    \/ cancel_job

Next ==
    \/ ServiceCalls(PayloadTupleLen, MaxStarts)
    \/ \E t \in Workers :
          \/ GetPayloads(t)
          \/ GetFilters(t)
          \/ GetCfg(t)
          \/ UnpackFails(t)
          \/ FinalState(t)
          \/ RunJobReturn(t)
          \/ RunJobExcept(t)

Spec == Init /\ [][Next]_vars

NextW ==
    \/ ServiceCalls(UnpackLen, MaxPasses)
    \/ \E t \in Workers :
          \/ GetPayloads(t)
          \/ GetFilters(t)
          \/ GetCfg(t)
          \/ BeginFile(t)
          \/ TryBody(t)
          \/ UpdateFile(t)
          \/ UpdateCounters(t)
          \/ FinalState(t)
          \/ RunJobReturn(t)

SpecW == Init /\ [][NextW]_vars

InitFn ==
    /\ job = NewJob(NoCfg)
    /\ rows = <<>>
    /\ threads = [t \in Workers |-> IdleThread]
    /\ spawned = 0
    /\ hist = [cancel_at |-> 0]
    /\ fn_in \in FnInputs
    /\ fn_out = NoResult

NextFn == ApplyCfgMismatch

SpecFn == InitFn /\ [][NextFn]_vars

\* ------------------------------------------------------- strings as data
\* A Python str is modelled as the sequence of its characters; a key a row
\* does not hold, None and "" are all the empty sequence (each is falsy and
\* _safe_str maps each to "").  The character "baht" stands for the Thai
\* baht sign.
Ws == {" ", "\n"}
Digits == {"0", "1", "2", "3", "4", "5", "6", "7", "8", "9"}

RECURSIVE LStrip(_)
LStrip(s) == IF s # <<>> /\ Head(s) \in Ws THEN LStrip(Tail(s)) ELSE s

RECURSIVE RStrip(_)
RStrip(s) ==
    IF s # <<>> /\ s[Len(s)] \in Ws THEN RStrip(SubSeq(s, 1, Len(s) - 1))
    ELSE s

\* str.strip()
Strip(s) == RStrip(LStrip(s))

IsDigit(c) == c \in Digits
NotWs(c) == c \notin Ws

\* s[:n]
Take(s, n) == SubSeq(s, 1, IF Len(s) < n THEN Len(s) ELSE n)

\* str.zfill(n)
ZFill(s, n) == IF Len(s) >= n THEN s ELSE [i \in 1..(n - Len(s)) |-> "0"] \o s

\* str.replace(sub, ""): non-overlapping occurrences, left to right
RECURSIVE Remove(_, _)
Remove(s, sub) ==
    IF Len(s) < Len(sub) THEN s
    ELSE IF SubSeq(s, 1, Len(sub)) = sub
    THEN Remove(SubSeq(s, Len(sub) + 1, Len(s)), sub)
    ELSE <<Head(s)>> \o Remove(Tail(s), sub)

UpperChar(c) ==
    CASE c = "n" -> "N" [] c = "o" -> "O" [] c = "e" -> "E" [] OTHER -> c

\* str.upper()
Upper(s) == [i \in 1..Len(s) |-> UpperChar(s[i])]

_safe_str(v) == Strip(v)

_digits_only(s) == SelectSeq(s, IsDigit)

_clean_money_str(v) ==
    LET s == _safe_str(v)
    IN  IF s = <<>> THEN <<>>
        ELSE Strip(Remove(Remove(Remove(s, <<"baht">>), <<"T", "H", "B">>),
                          <<",">>))

\* RE_ALL_WS.sub("", s)
_compact_ref(v) ==
    LET s == _safe_str(v) IN IF s = <<>> THEN <<>> ELSE SelectSeq(s, NotWs)

\* ------------------------------------------------------------- row fields
DateKeys == {"B_doc_date", "H_invoice_date", "I_tax_purchase_date"}

TextKeys ==
    {"A_company_name", "D_vendor_code", "K_account", "L_description",
     "Q_payment_method", "S_pnd", "T_note", "U_group"}

RowKeys ==
    DateKeys \cup TextKeys \cup
    {"E_tax_id_13", "F_branch_5", "J_price_type", "O_vat_rate", "M_qty",
     "N_unit_price", "R_paid_amount", "P_wht", "C_reference", "G_invoice_no"}

\* the values _should_call_ai and the AI merge take for an unfilled amount
ZeroStrings == {<<>>, <<"0">>, <<"0", ".", "0">>, <<"0", ".", "0", "0">>}

\* row.get(a) or row.get(b) or "0"
FirstTruthy(a, b) == IF a # <<>> THEN a ELSE IF b # <<>> THEN b ELSE <<"0">>

\* _clean_money_str(...) or "0"
MoneyOrZero(v) == IF _clean_money_str(v) = <<>> THEN <<"0">> ELSE _clean_money_str(v)

\* the assignments of _normalize_row_fields in the order the code makes
\* them (A_seq, which the caller passes, is kept outside the row here)
_normalize_row_fields(row) ==
    LET br == _digits_only(_safe_str(row.F_branch_5))
        j == _safe_str(row.J_price_type)
        o == Upper(_safe_str(row.O_vat_rate))
        n == MoneyOrZero(FirstTruthy(row.N_unit_price, row.R_paid_amount))
        r == MoneyOrZero(FirstTruthy(row.R_paid_amount, n))
        c == _compact_ref(row.C_reference)
        g == _compact_ref(row.G_invoice_no)
        c2 == IF _safe_str(c) = <<>> /\ _safe_str(g) # <<>> THEN _safe_str(g) ELSE c
        g2 == IF _safe_str(g) = <<>> /\ _safe_str(c2) # <<>> THEN _safe_str(c2) ELSE g
    IN  [k \in RowKeys |->
           CASE k \in DateKeys ->
                  IF row[k] # <<>> THEN Take(_digits_only(_safe_str(row[k])), 8)
                  ELSE _safe_str(row[k])
             [] k = "E_tax_id_13" -> Take(_digits_only(_safe_str(row[k])), 13)
             [] k = "F_branch_5" ->
                  IF br # <<>> THEN Take(ZFill(br, 5), 5)
                  ELSE <<"0", "0", "0", "0", "0">>
             [] k = "J_price_type" ->
                  IF j \in {<<"1">>, <<"2">>, <<"3">>} THEN j
                  ELSE IF j # <<>> THEN j ELSE <<"1">>
             [] k = "O_vat_rate" ->
                  IF o \in {<<"N", "O">>, <<"0">>, <<"N", "O", "N", "E">>}
                  THEN <<"N", "O">>
                  ELSE IF o = <<>> \/ (\E i \in 1..Len(o) : o[i] = "7")
                  THEN <<"7", "%">>
                  ELSE o
             [] k = "M_qty" ->
                  LET m == _safe_str(IF row[k] # <<>> THEN row[k] ELSE <<"1">>)
                  IN  IF m # <<>> THEN m ELSE <<"1">>
             [] k = "N_unit_price" -> n
             [] k = "R_paid_amount" -> r
             [] k = "P_wht" -> <<>>
             [] k = "C_reference" -> c2
             [] k = "G_invoice_no" -> g2
             [] OTHER -> _safe_str(row[k])]

\* _should_call_ai(errors, row); errors is whether row["_errors"] is non-empty
_should_call_ai(errors, row) ==
    \/ errors
    \/ _safe_str(row.B_doc_date) = <<>>
    \/ _safe_str(row.L_description) = <<>>
    \/ _safe_str(row.R_paid_amount) \in ZeroStrings

\* the keys ai_fill_peak_row lets through
AiSchemaKeys == (RowKeys \ {"A_company_name"}) \cup {"_ai_confidence", "_ai_notes"}

\* the merge loop overriding whenever AI_ONLY_FILL_EMPTY is off, with or
\* without recorded errors
AiMergeRow_always_override(row, errors, ai_patch, ai_only_fill_empty) ==
    [k \in RowKeys |->
        IF k \notin DOMAIN ai_patch \/ k = "P_wht" THEN row[k]
        ELSE IF _safe_str(ai_patch[k]) = <<>> THEN row[k]
        ELSE IF ai_only_fill_empty
        THEN IF _safe_str(row[k]) \in ZeroStrings THEN _safe_str(ai_patch[k])
             ELSE row[k]
        ELSE _safe_str(ai_patch[k])]

\* the merge loop without the skip of P_wht
AiMergeRow_writing_wht(row, errors, ai_patch, ai_only_fill_empty) ==
    [k \in RowKeys |->
        IF k \notin DOMAIN ai_patch THEN row[k]
        ELSE IF _safe_str(ai_patch[k]) = <<>> THEN row[k]
        ELSE IF ai_only_fill_empty
        THEN IF _safe_str(row[k]) \in ZeroStrings THEN _safe_str(ai_patch[k])
             ELSE row[k]
        ELSE IF errors THEN _safe_str(ai_patch[k])
        ELSE IF _safe_str(row[k]) \in ZeroStrings THEN _safe_str(ai_patch[k])
        ELSE row[k]]

\* the loop that merges an AI patch into the row: a patch is a function from
\* some of AiSchemaKeys to strings
AiMergeRow(row, errors, ai_patch, ai_only_fill_empty) ==
    [k \in RowKeys |->
        IF k \notin DOMAIN ai_patch \/ k = "P_wht" THEN row[k]
        ELSE IF _safe_str(ai_patch[k]) = <<>> THEN row[k]
        ELSE IF ai_only_fill_empty
        THEN IF _safe_str(row[k]) \in ZeroStrings THEN _safe_str(ai_patch[k])
             ELSE row[k]
        ELSE IF errors THEN _safe_str(ai_patch[k])
        ELSE IF _safe_str(row[k]) \in ZeroStrings THEN _safe_str(ai_patch[k])
        ELSE row[k]]

\* the underscore keys of a patch are copied as they are
AiMergeMeta(ai_patch) ==
    [k \in {x \in DOMAIN ai_patch : x \in {"_ai_confidence", "_ai_notes"}} |-> ai_patch[k]]

\* ------------------------------------------------------ rows as inputs
RECURSIVE StringsUpTo(_, _)
StringsUpTo(alphabet, n) ==
    IF n = 0 THEN {<<>>}
    ELSE LET shorter == StringsUpTo(alphabet, n - 1)
         IN  shorter \cup {<<c>> \o s : c \in alphabet, s \in {x \in shorter : Len(x) = n - 1}}

RefStrings == StringsUpTo({"A", " ", "\n"}, MaxRefLen)
MoneyStrings == StringsUpTo({"baht", "T", "H", "B", ",", "1"}, MaxMoneyLen)

\* the row before normalization when nothing was extracted (the shape of the
\* no-text row and of the ERROR row), and a row with the fields filled
EmptyRow == [k \in RowKeys |-> <<>>]

FilledRow ==
    [EmptyRow EXCEPT
        !.B_doc_date = <<"2", "0", "2", "4", "0", "1", "3", "1">>,
        !.L_description = <<"x">>,
        !.C_reference = <<"A">>, !.G_invoice_no = <<"A">>,
        !.N_unit_price = <<"5">>, !.R_paid_amount = <<"5">>]

\* values an extractor or an OCR text can leave in the other fields
MiscValues(k) ==
    CASE k \in DateKeys ->
           {<<"2", "0", "2", "4", "-", "0", "1", "-", "3", "1", " ", "1">>, <<"n", "o">>}
      [] k = "E_tax_id_13" ->
           {<<"0", "1", "0", "5", "5", "6", "3", "0", "2", "2", "9", "1", "8", "7">>, <<"1", " ", "2">>}
      [] k = "F_branch_5" -> {<<"1">>, <<"1", "2", "3", "4", "5", "6">>, <<"e">>}
      [] k = "J_price_type" -> {<<"1">>, <<"2">>, <<"3">>, <<"4">>, <<" ", "2">>, <<" ">>}
      [] k = "O_vat_rate" -> {<<"n", "o">>, <<"0">>, <<"n", "o", "n", "e">>, <<"7">>, <<"1", "0", "%">>, <<" ">>}
      [] k = "M_qty" -> {<<"2">>, <<" ">>, <<"0">>}
      [] k = "P_wht" -> {<<"3", "%">>, <<"0">>}
      [] OTHER -> {<<" ", "x", " ">>, <<" ">>}

RowInputs ==
    {EmptyRow, FilledRow}
    \cup {[FilledRow EXCEPT !.C_reference = c, !.G_invoice_no = g] : c \in RefStrings, g \in RefStrings}
    \cup {[FilledRow EXCEPT !.N_unit_price = n, !.R_paid_amount = r] : n \in MoneyStrings, r \in {<<>>, <<"5">>}}
    \cup UNION {{[FilledRow EXCEPT ![k] = v] : v \in MiscValues(k)} : k \in RowKeys}

AiPatches ==
    { [P_wht |-> <<"3", "%">>, L_description |-> <<"y">>],
      [C_reference |-> <<"Z">>],
      [G_invoice_no |-> <<" ">>, N_unit_price |-> <<"9">>],
      [_ai_notes |-> <<"n">>, R_paid_amount |-> <<"9">>] }

\* --------------------------------------- the row pipeline of one file
\* SpecRow follows one row through the steps process_job_files applies to
\* it: _normalize_row_fields, the AI merge when _should_call_ai says so,
\* and the reset of P_wht with the second _normalize_row_fields.  fn_in is
\* the row as the extractor left it; fn_out holds the step reached (pc),
\* the row, and the arguments of the merge that was made.
NoPatch == [k \in {} |-> <<>>]

NoCall == [errors |-> FALSE, ai_only_fill_empty |-> FALSE, ai_patch |-> NoPatch, called |-> FALSE]

NormalizeRow ==
    /\ fn_out = NoResult
    /\ fn_out' = [pc |-> "normalized", row |-> _normalize_row_fields(fn_in), before |-> fn_in, call |-> NoCall, meta |-> NoPatch]
    /\ UNCHANGED <<job, rows, threads, spawned, hist, fn_in>>

AiMerge ==
    /\ fn_out # NoResult
    /\ fn_out.pc = "normalized"
    /\ \E errors \in BOOLEAN, ai_only_fill_empty \in BOOLEAN, ai_patch \in AiPatches \cup {NoPatch} :
          IF _should_call_ai(errors, fn_out.row)
          THEN fn_out' = [pc |-> "merged",
                          row |-> AiMergeRow(fn_out.row, errors, ai_patch, ai_only_fill_empty),
                          before |-> fn_out.row,
                          call |-> [errors |-> errors, ai_only_fill_empty |-> ai_only_fill_empty, ai_patch |-> ai_patch, called |-> TRUE],
                          meta |-> AiMergeMeta(ai_patch)]
          ELSE fn_out' = [pc |-> "merged", row |-> fn_out.row, before |-> fn_out.row, call |-> NoCall, meta |-> NoPatch]
    /\ UNCHANGED <<job, rows, threads, spawned, hist, fn_in>>

\* row["P_wht"] = "" and the second _normalize_row_fields
PostAi ==
    /\ fn_out # NoResult
    /\ fn_out.pc = "merged"
    /\ fn_out' = [pc |-> "final",
                  row |-> _normalize_row_fields([fn_out.row EXCEPT !.P_wht = <<>>]),
                  before |-> fn_out.row, call |-> fn_out.call, meta |-> fn_out.meta]
    /\ UNCHANGED <<job, rows, threads, spawned, hist, fn_in>>

InitRow ==
    /\ job = NewJob(NoCfg)
    /\ rows = <<>>
    /\ threads = [t \in Workers |-> IdleThread]
    /\ spawned = 0
    /\ hist = [cancel_at |-> 0]
    /\ fn_in \in RowInputs
    /\ fn_out = NoResult

NextRow == NormalizeRow \/ AiMerge \/ PostAi

SpecRow == InitRow /\ [][NextRow]_vars

\* ------------------------------------------------ extractors: amounts
\* A money string is modelled by the amount it denotes (v, in a unit of the
\* document) and by whether it is written the way parse_money and
\* f"{v:.2f}" write it (canon); two strings are the same text when both
\* agree.  NoMoney is "".
NoMoney == [empty |-> TRUE, v |-> 0, canon |-> TRUE]
ZeroMoney == [empty |-> FALSE, v |-> 0, canon |-> FALSE]
Canon(v) == [empty |-> FALSE, v |-> v, canon |-> TRUE]
Loose(v) == [empty |-> FALSE, v |-> v, canon |-> FALSE]

\* float(str(x).replace(",", "").strip()), 0.0 for ""
_safe_float(x) == IF x.empty THEN 0 ELSE x.v

_derive_total_inc_vat(total_ex_vat, vat_amount) ==
    IF total_ex_vat.empty \/ vat_amount.empty THEN NoMoney
    ELSE IF _safe_float(total_ex_vat) + _safe_float(vat_amount) <= 0 THEN NoMoney
    ELSE Canon(_safe_float(total_ex_vat) + _safe_float(vat_amount))

\* what the amount step of an extractor reads off the text: the values its
\* own patterns capture (already through parse_money, and for SPX through
\* the withholding-hint guard of the context), and the dict the generic
\* extract_amounts returns
PatternMoney == {NoMoney, Canon(1), Canon(2)}
GenericMoney == {NoMoney, Canon(1), Loose(1), Canon(2), Loose(2)}

AmountInputs ==
    [platform : {"shopee", "lazada", "spx"},
     total_ex_vat : PatternMoney,
     vat_amount : {NoMoney, Canon(1)},
     total_inc_vat : {NoMoney, Canon(2)},
     wht_amount : PatternMoney,
     total_amount : PatternMoney,
     a : [total : GenericMoney, wht_amount : GenericMoney,
          vat : {NoMoney, Canon(1)}, subtotal : {NoMoney, Canon(1)}]]

\* extract_lazada, steps 4 and 5: source records which branch supplied the
\* total
extract_lazada_amounts(x) ==
    LET derived == _derive_total_inc_vat(x.total_ex_vat, x.vat_amount)
        inc1 == IF x.total_inc_vat.empty /\ ~derived.empty THEN derived ELSE x.total_inc_vat
        src1 == IF ~x.total_inc_vat.empty THEN "totals" ELSE IF ~derived.empty THEN "derived" ELSE "none"
        take == inc1.empty /\ ~x.a.total.empty /\ x.a.total # x.a.wht_amount
        inc2 == IF take THEN x.a.total ELSE inc1
        src2 == IF take THEN "generic" ELSE src1
        inc3 == IF inc2.empty /\ ~x.total_ex_vat.empty THEN x.total_ex_vat ELSE inc2
        src3 == IF inc2.empty /\ ~x.total_ex_vat.empty THEN "ex_vat" ELSE src2
    IN  [total_ex_vat |-> x.total_ex_vat, vat_amount |-> x.vat_amount,
         total_inc_vat |-> inc3, wht_amount |-> x.wht_amount,
         consulted |-> inc1.empty, source |-> src3,
         N_unit_price |-> IF ~inc3.empty THEN inc3 ELSE ZeroMoney,
         R_paid_amount |-> IF ~inc3.empty THEN inc3 ELSE ZeroMoney]

\* _extract_amounts_spx_strict and the mapping of extract_spx (step 5)
extract_spx_amounts(x) ==
    LET wht == x.wht_amount
        take_ta == x.total_inc_vat.empty /\ ~x.total_amount.empty
                   /\ (wht.empty \/ x.total_amount # wht)
        inc1 == IF take_ta THEN x.total_amount ELSE x.total_inc_vat
        src1 == IF ~x.total_inc_vat.empty THEN "totals" ELSE IF take_ta THEN "total_amount" ELSE "none"
        sum == _safe_float(x.total_ex_vat) + _safe_float(x.vat_amount)
        derive == inc1.empty /\ ~x.total_ex_vat.empty /\ ~x.vat_amount.empty /\ sum > 0
        inc2 == IF derive THEN Canon(sum) ELSE inc1
        src2 == IF derive THEN "derived" ELSE src1
        diff == _safe_float(inc2) - _safe_float(x.vat_amount)
        ex2 == IF x.total_ex_vat.empty /\ ~inc2.empty /\ ~x.vat_amount.empty /\ diff > 0
               THEN Canon(diff) ELSE x.total_ex_vat
        consulted == inc2.empty
        take == consulted /\ ~x.a.total.empty /\ x.a.total # x.a.wht_amount
        inc3 == IF take THEN x.a.total ELSE inc2
        src3 == IF take THEN "generic" ELSE src2
        vat3 == IF consulted /\ x.vat_amount.empty /\ ~x.a.vat.empty THEN x.a.vat ELSE x.vat_amount
        ex3 == IF consulted /\ ex2.empty /\ ~x.a.subtotal.empty THEN x.a.subtotal ELSE ex2
    IN  [total_ex_vat |-> ex3, vat_amount |-> vat3,
         total_inc_vat |-> inc3, wht_amount |-> wht,
         consulted |-> consulted, source |-> src3,
         N_unit_price |-> IF ~inc3.empty THEN inc3 ELSE ZeroMoney,
         R_paid_amount |-> IF ~inc3.empty THEN inc3 ELSE ZeroMoney]

\* extract_shopee, step 4: the summary block (subtotal, vat, total are
\* x.total_ex_vat, x.vat_amount, x.total_inc_vat), the common extractor when
\* the summary gave nothing, then the PEAK mapping.  The withholding amount,
\* found or computed as 3% of the subtotal, only decides S_pnd.
extract_shopee_amounts(x) ==
    LET fallback == x.total_ex_vat.empty /\ x.vat_amount.empty /\ x.total_inc_vat.empty
        subtotal == IF fallback THEN x.a.subtotal ELSE x.total_ex_vat
        vat == IF fallback THEN x.a.vat ELSE x.vat_amount
        total == IF fallback THEN x.a.total ELSE x.total_inc_vat
        has_wht == \/ ~x.wht_amount.empty
                   \/ ~x.total_ex_vat.empty /\ _safe_float(x.total_ex_vat) > 0
                   \/ fallback /\ ~x.a.wht_amount.empty
        unit == IF ~subtotal.empty THEN subtotal
                ELSE IF ~total.empty THEN total
                ELSE IF ~vat.empty THEN vat
                ELSE ZeroMoney
    IN  [total_ex_vat |-> subtotal, vat_amount |-> vat,
         total_inc_vat |-> total, wht_amount |-> x.wht_amount,
         consulted |-> fallback,
         source |-> IF total.empty THEN "none" ELSE IF fallback THEN "common" ELSE "summary",
         N_unit_price |-> unit,
         R_paid_amount |-> IF ~total.empty THEN total
                           ELSE IF ~subtotal.empty THEN subtotal
                           ELSE unit,
         S_pnd |-> IF has_wht THEN "53" ELSE ""]

\* SpecAmt: the amount step of an extractor applied to what its patterns
\* and the generic extractor read off a document
ExtractShopeeAmounts ==
    /\ fn_out = NoResult
    /\ fn_in.platform = "shopee"
    /\ fn_out' = extract_shopee_amounts(fn_in)
    /\ UNCHANGED <<job, rows, threads, spawned, hist, fn_in>>

ExtractLazadaAmounts ==
    /\ fn_out = NoResult
    /\ fn_in.platform = "lazada"
    /\ fn_out' = extract_lazada_amounts(fn_in)
    /\ UNCHANGED <<job, rows, threads, spawned, hist, fn_in>>

ExtractSpxAmounts ==
    /\ fn_out = NoResult
    /\ fn_in.platform = "spx"
    /\ fn_out' = extract_spx_amounts(fn_in)
    /\ UNCHANGED <<job, rows, threads, spawned, hist, fn_in>>

InitAmt ==
    /\ job = NewJob(NoCfg)
    /\ rows = <<>>
    /\ threads = [t \in Workers |-> IdleThread]
    /\ spawned = 0
    /\ hist = [cancel_at |-> 0]
    /\ fn_in \in AmountInputs
    /\ fn_out = NoResult

NextAmt == ExtractShopeeAmounts \/ ExtractLazadaAmounts \/ ExtractSpxAmounts

SpecAmt == InitAmt /\ [][NextAmt]_vars

\* ------------------------------------------------------- vendor_mapping
\* A tax id is the sequence of its digits.
CLIENT_RABBIT == <<"0", "1", "0", "5", "5", "6", "1", "0", "7", "1", "8", "7", "3">>
CLIENT_SHD == <<"0", "1", "0", "5", "5", "6", "3", "0", "2", "2", "9", "1", "8">>
CLIENT_TOPONE == <<"0", "1", "0", "5", "5", "6", "5", "0", "2", "7", "6", "1", "5">>

VENDOR_SHOPEE == <<"0", "1", "0", "5", "5", "5", "8", "0", "1", "9", "5", "8", "1">>
VENDOR_LAZADA == <<"0", "1", "0", "5", "5", "6", "2", "1", "4", "1", "7", "6">>
VENDOR_TIKTOK == <<"0", "1", "0", "5", "5", "5", "5", "0", "4", "0", "2", "4", "4">>
VENDOR_MARKETPLACE_OTHER == <<"0", "1", "0", "5", "5", "4", "8", "0", "0", "0", "2", "4", "1">>
VENDOR_SHOPIFY == <<"0", "9", "9", "3", "0", "0", "0", "4", "7", "5", "8", "7", "9">>
VENDOR_SPX == <<"0", "1", "0", "5", "5", "6", "1", "1", "6", "4", "8", "7", "1">>

\* VENDOR_CODE_BY_CLIENT.get(c, {}).get(v), "" for None
VENDOR_CODE_BY_CLIENT(c, v) ==
    CASE c = CLIENT_RABBIT ->
           (CASE v = VENDOR_SHOPEE -> "C00395" [] v = VENDOR_LAZADA -> "C00411"
              [] v = VENDOR_TIKTOK -> "C00562" [] v = VENDOR_MARKETPLACE_OTHER -> "C01031"
              [] v = VENDOR_SHOPIFY -> "C01143" [] v = VENDOR_SPX -> "C00563"
              [] OTHER -> "")
      [] c = CLIENT_SHD ->
           (CASE v = VENDOR_SHOPEE -> "C00888" [] v = VENDOR_LAZADA -> "C01132"
              [] v = VENDOR_TIKTOK -> "C01246" [] v = VENDOR_MARKETPLACE_OTHER -> "C01420"
              [] v = VENDOR_SHOPIFY -> "C33491" [] v = VENDOR_SPX -> "C01133"
              [] OTHER -> "")
      [] c = CLIENT_TOPONE ->
           (CASE v = VENDOR_SHOPEE -> "C00020" [] v = VENDOR_LAZADA -> "C00025"
              [] v = VENDOR_TIKTOK -> "C00051" [] v = VENDOR_MARKETPLACE_OTHER -> "C00095"
              [] v = VENDOR_SPX -> "C00038"
              [] OTHER -> "")
      [] OTHER -> ""

\* the codes that match ^C\d{5}$ among the strings the lookups can yield
CCodes ==
    {"C00395", "C00411", "C00562", "C01031", "C01143", "C00563",
     "C00888", "C01132", "C01246", "C01420", "C33491", "C01133",
     "C00020", "C00025", "C00051", "C00095", "C00038"}

_code_is_valid(code) == code # "" /\ code \in CCodes

\* A string handed to the mapping is modelled by what the mapping reads in
\* it: its digits when it is a digit string, and the keys of
\* VENDOR_NAME_TO_TAX it contains once lower-cased (its platform words).
EmptyStr == [digits |-> <<>>, keys |-> {}, empty |-> TRUE]
TaxStr(d) == [digits |-> d, keys |-> {}, empty |-> FALSE]
NameStr(keys) == [digits |-> <<>>, keys |-> keys, empty |-> FALSE]

\* the keys of VENDOR_NAME_TO_TAX that the names used here can contain, in
\* the order the dict holds them
VendorNameOrder == <<"shopee", "lazada", "tiktok", "spx", "shopify", "marketplace">>

VENDOR_NAME_TO_TAX(key) ==
    CASE key = "shopee" -> VENDOR_SHOPEE [] key = "lazada" -> VENDOR_LAZADA
      [] key = "tiktok" -> VENDOR_TIKTOK [] key = "spx" -> VENDOR_SPX
      [] key = "shopify" -> VENDOR_SHOPIFY [] key = "marketplace" -> VENDOR_MARKETPLACE_OTHER

\* _norm_tax_id: the 13-digit run \b\d{13}\b finds in a digit string, else ""
_norm_tax_id(s) == IF Len(s.digits) = 13 THEN s.digits ELSE <<>>

_is_known_client(c) == c \in {CLIENT_RABBIT, CLIENT_SHD, CLIENT_TOPONE}

get_vendor_tax_id_from_name(name) ==
    IF FirstOf(VendorNameOrder, name.keys) = "" THEN <<>>
    ELSE VENDOR_NAME_TO_TAX(FirstOf(VendorNameOrder, name.keys))

get_vendor_code(client_tax_id, vendor_tax_id, vendor_name) ==
    LET c == _norm_tax_id(client_tax_id)
        v == _norm_tax_id(vendor_tax_id)
        name_hint == IF ~vendor_name.empty THEN vendor_name ELSE vendor_tax_id
        v2 == get_vendor_tax_id_from_name(name_hint)
    IN  IF c = <<>> \/ ~_is_known_client(c) THEN "Unknown"
        ELSE IF v # <<>> /\ _code_is_valid(VENDOR_CODE_BY_CLIENT(c, v))
        THEN VENDOR_CODE_BY_CLIENT(c, v)
        ELSE IF v2 # <<>> /\ _code_is_valid(VENDOR_CODE_BY_CLIENT(c, v2))
        THEN VENDOR_CODE_BY_CLIENT(c, v2)
        ELSE "Unknown"

\* ------------------------------------------- extractors: D_vendor_code
\* from .vendor_mapping import (...): the names vendor_mapping.py defines
\* that an extractor may ask for, and the names each extractor asks for
VendorMappingExports ==
    {"get_vendor_code", "VENDOR_SHOPEE", "VENDOR_LAZADA", "VENDOR_SPX",
     "VENDOR_TIKTOK", "VENDOR_SHOPIFY", "VENDOR_MARKETPLACE_OTHER",
     "VENDOR_CODE_BY_CLIENT", "VENDOR_NAME_TO_TAX", "get_wallet_code"}

ShopeeImports == {"get_vendor_code", "VENDOR_SHOPEE"}
LazadaImports == {"get_vendor_code", "VENDOR_LAZADA", "VENDOR_NAME_MAP"}
SpxImports == {"get_vendor_code", "VENDOR_SPX"}

\* the try/except around the import; importable is whether the module can
\* be loaded at all
VENDOR_MAPPING_AVAILABLE(imports, importable) ==
    importable /\ imports \subseteq VendorMappingExports

\* extract_shopee, step 1; x.raises is whether the lookup raises
shopee_vendor_code(x) ==
    LET vendor_tax == IF ~x.vendor_tax_id.empty THEN x.vendor_tax_id ELSE TaxStr(VENDOR_SHOPEE)
        code == get_vendor_code(x.client_tax_id, vendor_tax, NameStr({"shopee"}))
    IN  IF VENDOR_MAPPING_AVAILABLE(ShopeeImports, x.importable) /\ ~x.client_tax_id.empty
        THEN IF x.raises THEN "Shopee"
             ELSE IF code # "" THEN code ELSE "Shopee"
        ELSE "Shopee"

\* extract_lazada, step 1; x.picked is what _pick_client_tax_id finds
lazada_vendor_code(x) ==
    LET available == VENDOR_MAPPING_AVAILABLE(LazadaImports, x.importable)
        lazada_id == IF available THEN VENDOR_LAZADA ELSE VENDOR_TIKTOK
        vendor_tax == IF ~x.vendor_tax_id.empty THEN x.vendor_tax_id ELSE TaxStr(lazada_id)
        client_tax_id == IF ~x.client_tax_id.empty THEN x.client_tax_id ELSE x.picked
        code == get_vendor_code(client_tax_id, vendor_tax, NameStr({"lazada"}))
    IN  IF available /\ ~client_tax_id.empty
        THEN IF x.raises THEN "Lazada"
             ELSE IF code # "" THEN code ELSE "Lazada"
        ELSE "Lazada"

_vendor_code_fallback_for_spx(client_tax_id) ==
    CASE client_tax_id.digits = CLIENT_TOPONE -> "C00038"
      [] client_tax_id.digits = CLIENT_SHD -> "C01133"
      [] client_tax_id.digits = CLIENT_RABBIT -> "C00563"
      [] OTHER -> "SPX"

\* _get_vendor_code_safe
spx_vendor_code(x) ==
    LET vendor_tax == IF ~x.vendor_tax_id.empty THEN x.vendor_tax_id ELSE TaxStr(VENDOR_SPX)
        code == get_vendor_code(x.client_tax_id, vendor_tax, NameStr({"spx"}))
    IN  IF VENDOR_MAPPING_AVAILABLE(SpxImports, x.importable) /\ ~x.client_tax_id.empty
        THEN IF x.raises THEN _vendor_code_fallback_for_spx(x.client_tax_id)
             ELSE IF code # "" THEN code
             ELSE _vendor_code_fallback_for_spx(x.client_tax_id)
        ELSE _vendor_code_fallback_for_spx(x.client_tax_id)

\* inputs; vendor_mapping.py is present and get_vendor_code has no raising
\* path for strings, so importable is TRUE and raises is FALSE
OtherTax == <<"1", "2", "3", "4", "5", "6", "7", "8", "9", "0", "1", "2", "3">>

ClientInputs ==
    {EmptyStr, TaxStr(CLIENT_RABBIT), TaxStr(CLIENT_SHD), TaxStr(CLIENT_TOPONE), TaxStr(OtherTax)}

CanonicalVendors ==
    {VENDOR_SHOPEE, VENDOR_LAZADA, VENDOR_TIKTOK, VENDOR_MARKETPLACE_OTHER, VENDOR_SHOPIFY, VENDOR_SPX}

VendorTaxInputs == {EmptyStr, NameStr({"shopee"}), TaxStr(OtherTax)} \cup {TaxStr(v) : v \in CanonicalVendors}

VendorNameInputs == {EmptyStr, NameStr({})} \cup {NameStr({VendorNameOrder[i]}) : i \in 1..Len(VendorNameOrder)}

VendorInputs ==
    [fn : {"get_vendor_code"}, client_tax_id : ClientInputs, vendor_tax_id : VendorTaxInputs,
     vendor_name : VendorNameInputs, importable : {TRUE}, raises : {FALSE}, picked : {EmptyStr}]
    \cup
    [fn : {"shopee", "lazada", "spx"}, client_tax_id : ClientInputs,
     vendor_tax_id : {EmptyStr, TaxStr(OtherTax)},
     vendor_name : {EmptyStr}, importable : {TRUE}, raises : {FALSE},
     picked : {EmptyStr, TaxStr(CLIENT_SHD)}]

\* SpecVendor: the vendor-code lookups applied to drawn inputs
GetVendorCode ==
    /\ fn_out = NoResult
    /\ fn_in.fn = "get_vendor_code"
    /\ fn_out' = [code |-> get_vendor_code(fn_in.client_tax_id, fn_in.vendor_tax_id, fn_in.vendor_name)]
    /\ UNCHANGED <<job, rows, threads, spawned, hist, fn_in>>

ExtractVendorCode ==
    /\ fn_out = NoResult
    /\ fn_in.fn \in {"shopee", "lazada", "spx"}
    /\ fn_out' = [code |-> CASE fn_in.fn = "shopee" -> shopee_vendor_code(fn_in)
                             [] fn_in.fn = "lazada" -> lazada_vendor_code(fn_in)
                             [] fn_in.fn = "spx" -> spx_vendor_code(fn_in)]
    /\ UNCHANGED <<job, rows, threads, spawned, hist, fn_in>>

InitVendor ==
    /\ job = NewJob(NoCfg)
    /\ rows = <<>>
    /\ threads = [t \in Workers |-> IdleThread]
    /\ spawned = 0
    /\ hist = [cancel_at |-> 0]
    /\ fn_in \in VendorInputs
    /\ fn_out = NoResult

NextVendor == GetVendorCode \/ ExtractVendorCode

SpecVendor == InitVendor /\ [][NextVendor]_vars

\* ------------------------------------------------------ classifier.py
\* A document is what the regexes and keyword tables see of the normalized
\* text and filename: the strong ids that hit, how many keywords of each
\* table occur in the text and in the filename, and the context flags.
ScoreLabels == <<"shopee", "lazada", "tiktok", "spx", "ads">>
SoftPlatforms == {"shopee", "lazada", "tiktok", "spx"}

\* _weighted_score
_weighted_score(d) ==
    LET soft(p) == 8 * d.text[p] + 12 * d.fname[p]
        \* "shopee"/"tiv"/"tir" occurs in text or filename
        has_shopee_context ==
            \/ d.ids \cap {"tiv", "tir", "shopee-ti"} # {}
            \/ d.text["shopee"] + d.fname["shopee"] > 0
        ads == IF d.shipping_ctx THEN 0
               ELSE IF d.strong_ads >= 2 THEN 70
               ELSE IF d.strong_ads >= 1 /\ d.weak_ads >= 2 THEN 60
               ELSE IF d.strong_ads >= 1 THEN 45
               ELSE 0
    IN  [shopee |-> (IF "tiv" \in d.ids THEN 90 ELSE 0)
                    + (IF "tir" \in d.ids THEN 90 ELSE 0)
                    + (IF "shopee-ti" \in d.ids THEN 80 ELSE 0)
                    + soft("shopee")
                    + (IF d.trs /\ has_shopee_context THEN 15 ELSE 0),
         lazada |-> (IF "thmpti" \in d.ids THEN 100 ELSE 0) + soft("lazada"),
         tiktok |-> (IF "ttsth" \in d.ids THEN 100 ELSE 0) + soft("tiktok"),
         spx |-> (IF "rcspx" \in d.ids THEN 120 ELSE 0) + soft("spx"),
         ads |-> ads]

\* max(score.items(), key=lambda kv: kv[1])[0]: the first label, in the
\* dict's insertion order, that carries the greatest score
RECURSIVE FirstMax(_, _)
FirstMax(labels, score) ==
    IF Len(labels) = 1 THEN Head(labels)
    ELSE LET rest == FirstMax(Tail(labels), score)
         IN  IF score[Head(labels)] >= score[rest] THEN Head(labels) ELSE rest

MaxOf(a, b) == IF a >= b THEN a ELSE b

\* the resolution with the ads test moved ahead of the platform thresholds
\* and without its comparison to the other scores
resolve_ads_first(score, invoice_sig) ==
    LET best_label == FirstMax(ScoreLabels, score)
    IN  IF score.ads >= 60 THEN "ads"
        ELSE IF score.spx >= 40 THEN "spx"
        ELSE IF score.lazada >= 40 THEN "lazada"
        ELSE IF score.tiktok >= 30 THEN "tiktok"
        ELSE IF score.shopee >= 30 THEN "shopee"
        ELSE IF score[best_label] >= 25 THEN best_label
        ELSE IF invoice_sig THEN "other"
        ELSE "unknown"

\* classify_platform, from "Resolve winner by score" on
resolve(score, invoice_sig) ==
    LET best_label == FirstMax(ScoreLabels, score)
        best_score == score[best_label]
    IN  IF score.spx >= 40 THEN "spx"
        ELSE IF score.lazada >= 40 THEN "lazada"
        ELSE IF score.tiktok >= 30 THEN "tiktok"
        ELSE IF score.shopee >= 30 THEN "shopee"
        ELSE IF score.ads >= 60
                /\ score.ads > MaxOf(MaxOf(score.spx, score.lazada), MaxOf(score.tiktok, score.shopee))
             THEN "ads"
        ELSE IF best_score >= 25 THEN best_label
        ELSE IF invoice_sig THEN "other"
        ELSE "unknown"

\* the hard-fast path: a strong id returns before any scoring
fast_path(d) ==
    IF "rcspx" \in d.ids THEN "spx"
    ELSE IF "thmpti" \in d.ids THEN "lazada"
    ELSE IF d.ids \cap {"ttsth", "tiktok_word"} # {} THEN "tiktok"
    ELSE ""

classify_platform(d) ==
    IF d.empty THEN "unknown"
    ELSE IF fast_path(d) # "" THEN fast_path(d)
    ELSE resolve(_weighted_score(d), d.invoice_sig)

\* inputs: a document mentions two platforms, the first in its text and its
\* filename, the second in its text, each with up to MaxSigs keywords
SigCounts == 0..MaxSigs
PlatformPairs == {<<p, q>> : p \in SoftPlatforms, q \in SoftPlatforms} \ {<<p, p>> : p \in SoftPlatforms}
NoSigs == [p \in SoftPlatforms |-> 0]
CountsFor(pair, a, b) == [p \in SoftPlatforms |-> IF p = pair[1] THEN a ELSE IF p = pair[2] THEN b ELSE 0]
ShopeeIdSets == {{}, {"tiv"}, {"tir", "shopee-ti"}, {"tiv", "tir", "shopee-ti"}}
FastIdSets == SUBSET {"rcspx", "thmpti", "ttsth", "tiktok_word"} \ {{}}
StrongAdsCounts == {0, 1, 2}
WeakAdsCounts == {0, 2}

ScoredDocuments ==
    {[empty |-> FALSE, ids |-> ids, text |-> CountsFor(pair, ta, tb), fname |-> CountsFor(pair, fa, 0),
      trs |-> trs, strong_ads |-> sa, weak_ads |-> wa, shipping_ctx |-> sh, invoice_sig |-> inv] :
        ids \in ShopeeIdSets, pair \in PlatformPairs, ta \in SigCounts, tb \in SigCounts,
        fa \in SigCounts, trs \in BOOLEAN, sa \in StrongAdsCounts,
        wa \in WeakAdsCounts, sh \in BOOLEAN, inv \in BOOLEAN}

FastDocuments ==
    {[empty |-> FALSE, ids |-> ids \cup sids, text |-> NoSigs, fname |-> CountsFor(<<"shopee", "spx">>, 1, 1),
      trs |-> FALSE, strong_ads |-> sa, weak_ads |-> 0, shipping_ctx |-> FALSE, invoice_sig |-> TRUE] :
        ids \in FastIdSets, sids \in ShopeeIdSets, sa \in StrongAdsCounts}

EmptyDocument ==
    [empty |-> TRUE, ids |-> {}, text |-> NoSigs, fname |-> NoSigs, trs |-> FALSE,
     strong_ads |-> 0, weak_ads |-> 0, shipping_ctx |-> FALSE, invoice_sig |-> FALSE]

ClassifyInputs == ScoredDocuments \cup FastDocuments \cup {EmptyDocument}

\* SpecClassify: classify_platform applied to drawn documents
ClassifyPlatform ==
    /\ fn_out = NoResult
    /\ fn_out' = [label |-> classify_platform(fn_in), score |-> _weighted_score(fn_in)]
    /\ UNCHANGED <<job, rows, threads, spawned, hist, fn_in>>

InitClassify ==
    /\ job = NewJob(NoCfg)
    /\ rows = <<>>
    /\ threads = [t \in Workers |-> IdleThread]
    /\ spawned = 0
    /\ hist = [cancel_at |-> 0]
    /\ fn_in \in ClassifyInputs
    /\ fn_out = NoResult

NextClassify == ClassifyPlatform

SpecClassify == InitClassify /\ [][NextClassify]_vars

\* ---------------------------------------------------- reference builders
\* extractors/spx.py, extractors/shopee.py, extractors/lazada.py: the full
\* reference DOCNO + MMDD-NNNNNNN.  The regular expressions of the three
\* modules are matched as Python's re matches them: a pattern is a sequence
\* of items, each a character class with a repetition range or the word
\* boundary \b; search() takes the leftmost start, and at that start every
\* item takes the longest repetition the rest of the pattern still accepts.
UpperLetters ==
    {"A", "B", "C", "D", "E", "F", "G", "H", "I", "J", "K", "L", "M",
     "N", "O", "P", "Q", "R", "S", "T", "U", "V", "W", "X", "Y", "Z"}

LowerLetters ==
    {"a", "b", "c", "d", "e", "f", "g", "h", "i", "j", "k", "l", "m",
     "n", "o", "p", "q", "r", "s", "t", "u", "v", "w", "x", "y", "z"}

\* \w
WordChars == UpperLetters \cup LowerLetters \cup Digits \cup {"_"}

\* [A-Z0-9] under re.IGNORECASE
AlnumChars == UpperLetters \cup LowerLetters \cup Digits

\* [A-Z0-9\-/] under re.IGNORECASE
DocChars == AlnumChars \cup {"-", "/"}

\* [:#<fullwidth colon>]; "fwcolon" stands for the full-width colon
ColonChars == {":", "#", "fwcolon"}

\* x{min,max}
Cls(set, min, max) ==
    [b |-> FALSE, set |-> set, min |-> min, max |-> max, open |-> FALSE]

\* x{min,}
AtLeast(set, min) ==
    [b |-> FALSE, set |-> set, min |-> min, max |-> min, open |-> TRUE]

\* \b
WordBoundary == [b |-> TRUE, set |-> {}, min |-> 0, max |-> 0, open |-> FALSE]

\* a literal character; under re.IGNORECASE, LitI gives both cases
Lit(c) == Cls({c}, 1, 1)
LitI(u, l) == Cls({u, l}, 1, 1)
Opt(set) == Cls(set, 0, 1)
WsStar == AtLeast(Ws, 0)
WsPlus == AtLeast(Ws, 1)

\* a pattern position that matches the empty string only; it pads the
\* shorter branch of an alternation so that both number their groups alike
Nothing == Cls({}, 0, 0)

\* \b at position i: exactly one of s[i-1], s[i] is a word character
AtBoundary(s, i) ==
    LET before == i > 1 /\ i - 1 <= Len(s) /\ s[i - 1] \in WordChars
        after == i <= Len(s) /\ s[i] \in WordChars
    IN  before # after

\* the number of characters of the class that start at position i
RECURSIVE Run(_, _, _)
Run(s, i, set) ==
    IF i <= Len(s) /\ s[i] \in set THEN 1 + Run(s, i + 1, set) ELSE 0

\* the repetition counts an item can take at position i
Counts(item, s, i) ==
    LET r == Run(s, i, item.set)
        hi == IF item.open \/ r < item.max THEN r ELSE item.max
    IN  item.min..hi

\* the items k.. of the pattern match at position i
RECURSIVE CanMatch(_, _, _, _)
CanMatch(re, k, s, i) ==
    IF k > Len(re) THEN TRUE
    ELSE IF re[k].b THEN AtBoundary(s, i) /\ CanMatch(re, k + 1, s, i)
    ELSE \E n \in Counts(re[k], s, i) : CanMatch(re, k + 1, s, i + n)

\* the position after each item k.. in the match the engine returns: every
\* item greedy, backtracking only as far as the rest of the pattern needs
RECURSIVE GreedyEnds(_, _, _, _)
GreedyEnds(re, k, s, i) ==
    IF k > Len(re) THEN <<>>
    ELSE IF re[k].b THEN <<i>> \o GreedyEnds(re, k + 1, s, i)
    ELSE LET ok == {n \in Counts(re[k], s, i) : CanMatch(re, k + 1, s, i + n)}
             n == CHOOSE n \in ok : \A m \in ok : m <= n
         IN  <<i + n>> \o GreedyEnds(re, k + 1, s, i + n)

NoMatch == [start |-> 0, ends |-> <<>>]

\* pattern.search(s)
Search(re, s) ==
    LET starts == {i \in 1..(Len(s) + 1) : CanMatch(re, 1, s, i)}
    IN  IF starts = {} THEN NoMatch
        ELSE LET i == CHOOSE i \in starts : \A j \in starts : i <= j
             IN  [start |-> i, ends |-> GreedyEnds(re, 1, s, i)]

\* search() of an alternation a|b|...: the leftmost start, and at one start
\* the first branch that matches
SearchAlt(res, s) ==
    LET ms == [k \in 1..Len(res) |-> Search(res[k], s)]
        hit == {k \in 1..Len(res) : ms[k].start # 0}
        first(k) ==
            \A j \in hit :
                \/ ms[k].start < ms[j].start
                \/ ms[k].start = ms[j].start /\ k <= j
    IN  IF hit = {} THEN NoMatch ELSE ms[CHOOSE k \in hit : first(k)]

\* the text the items a..b of the pattern matched
Group(s, m, a, b) ==
    SubSeq(s, IF a = 1 THEN m.start ELSE m.ends[a - 1], m.ends[b] - 1)

\* m.group(0)
Whole(s, m) == SubSeq(s, m.start, m.ends[Len(m.ends)] - 1)

\* utils/text_utils.py normalize_text: each run of spaces inside a line is
\* one space, each line is stripped, empty lines are dropped.  The texts of
\* the model hold no Thai digit, no repeat mark and no NUL, the characters
\* its other steps rewrite.
RECURSIVE SplitLines(_)
SplitLines(s) ==
    IF \A i \in 1..Len(s) : s[i] # "\n" THEN <<s>>
    ELSE LET i == CHOOSE i \in 1..Len(s) :
                    s[i] = "\n" /\ \A j \in 1..(i - 1) : s[j] # "\n"
         IN  <<SubSeq(s, 1, i - 1)>> \o SplitLines(SubSeq(s, i + 1, Len(s)))

RECURSIVE CollapseSpaces(_)
CollapseSpaces(line) ==
    IF Len(line) < 2 THEN line
    ELSE IF line[1] = " " /\ line[2] = " " THEN CollapseSpaces(Tail(line))
    ELSE <<Head(line)>> \o CollapseSpaces(Tail(line))

RECURSIVE JoinLines(_)
JoinLines(lines) ==
    IF lines = <<>> THEN <<>>
    ELSE IF Len(lines) = 1 THEN lines[1]
    ELSE lines[1] \o <<"\n">> \o JoinLines(Tail(lines))

NotEmptyLine(line) == line # <<>>

normalize_text(text) ==
    LET lines == SplitLines(text)
        cleaned == [i \in 1..Len(lines) |-> Strip(CollapseSpaces(lines[i]))]
    IN  IF text = <<>> THEN <<>>
        ELSE JoinLines(SelectSeq(cleaned, NotEmptyLine))

\* re.sub(r"\s+", "", s)
_squash_all_ws(s) == SelectSeq(s, NotWs)

_squash_spaces_and_newlines(s) == SelectSeq(s, NotWs)

_clean_ref_code(mmdd, seq7) == mmdd \o <<"-">> \o seq7

\* \b(\d{4})\s*-\s*(\d{7})\b, the same pattern in the three modules
RE_SPX_REF_CODE_FLEX ==
    <<WordBoundary, Cls(Digits, 4, 4), WsStar, Lit("-"), WsStar,
      Cls(Digits, 7, 7), WordBoundary>>

RE_SHOPEE_REFERENCE_CODE_FLEX == RE_SPX_REF_CODE_FLEX

RE_MMDD_SEQ == RE_SPX_REF_CODE_FLEX

\* (RCS[A-Z0-9\-/]{8,})
SpxDocToken ==
    <<LitI("R", "r"), LitI("C", "c"), LitI("S", "s"), AtLeast(DocChars, 8)>>

\* \b(RCS[A-Z0-9\-/]{8,})\s+(\d{4})\s*-\s*(\d{7})\b
RE_SPX_FULL_REFERENCE ==
    <<WordBoundary>> \o SpxDocToken \o
    <<WsPlus, Cls(Digits, 4, 4), WsStar, Lit("-"), WsStar,
      Cls(Digits, 7, 7), WordBoundary>>

\* (?:<Thai "number">|No\.?)\s*[:#]?\s*(RCS[A-Z0-9\-/]{8,}); "lekthi"
\* stands for the Thai word
RE_SPX_DOCNO ==
    <<<<Lit("lekthi"), Nothing, Nothing, WsStar, Opt(ColonChars), WsStar>>
        \o SpxDocToken,
      <<LitI("N", "n"), LitI("O", "o"), Opt({"."}), WsStar, Opt(ColonChars),
        WsStar>> \o SpxDocToken>>

_extract_ref_code_anywhere(t) ==
    LET m == Search(RE_SPX_REF_CODE_FLEX, t)
    IN  IF m.start = 0 THEN <<>>
        ELSE _clean_ref_code(Group(t, m, 2, 2), Group(t, m, 6, 6))

\* steps 1-2 on the text and steps 3-4 on the filename are the same code on
\* another string: the full reference, else the document number with the
\* reference code found anywhere, else the document number; "" when the
\* string holds no document number
spx_reference_in(s) ==
    LET m == Search(RE_SPX_FULL_REFERENCE, s)
        m_doc == SearchAlt(RE_SPX_DOCNO, s)
        ref == _extract_ref_code_anywhere(s)
    IN  IF m.start # 0
        THEN _squash_all_ws(Group(s, m, 2, 5) \o
                 _clean_ref_code(Group(s, m, 7, 7), Group(s, m, 11, 11)))
        ELSE IF m_doc.start # 0
        THEN _squash_all_ws(Group(s, m_doc, 7, 10) \o ref)
        ELSE <<>>

extract_spx_full_reference(text, filename) ==
    LET t_norm == normalize_text(text)
        f_norm == normalize_text(filename)
        t_sq == _squash_all_ws(t_norm)
        m_doc2 == Search(SpxDocToken, t_sq)
        m_ref2 == Search(RE_SPX_REF_CODE_FLEX, t_sq)
    IN  IF spx_reference_in(t_norm) # <<>> THEN spx_reference_in(t_norm)
        ELSE IF spx_reference_in(f_norm) # <<>> THEN spx_reference_in(f_norm)
        ELSE IF m_doc2.start # 0 /\ m_ref2.start # 0
        THEN _squash_all_ws(Whole(t_sq, m_doc2) \o
                 _clean_ref_code(Group(t_sq, m_ref2, 2, 2),
                                 Group(t_sq, m_ref2, 6, 6)))
        ELSE <<>>

\* (TRS[A-Z0-9\-/]{10,})
ShopeeTrsToken ==
    <<LitI("T", "t"), LitI("R", "r"), LitI("S", "s"), AtLeast(DocChars, 10)>>

\* TI[VR]-[A-Z0-9]+-\d{5}-\d{6}-\d{7,}
ShopeeTiToken ==
    <<LitI("T", "t"), LitI("I", "i"), Cls({"V", "R", "v", "r"}, 1, 1),
      Lit("-"), AtLeast(AlnumChars, 1), Lit("-"), Cls(Digits, 5, 5),
      Lit("-"), Cls(Digits, 6, 6), Lit("-"), AtLeast(Digits, 7)>>

\* Shopee-
ShopeePrefix ==
    <<LitI("S", "s"), LitI("H", "h"), LitI("O", "o"), LitI("P", "p"),
      LitI("E", "e"), LitI("E", "e"), Lit("-")>>

\* \b((?:Shopee-)?TI[VR]-[A-Z0-9]+-\d{5}-\d{6}-\d{7,})\b
RE_SHOPEE_DOC_TI_FORMAT ==
    <<<<WordBoundary>> \o ShopeePrefix \o ShopeeTiToken \o <<WordBoundary>>,
      <<WordBoundary>> \o ShopeeTiToken \o <<WordBoundary>>>>

\* \b(TRS[A-Z0-9\-/]{10,})\b
RE_SHOPEE_DOC_TRS_FORMAT ==
    <<WordBoundary>> \o ShopeeTrsToken \o <<WordBoundary>>

\* \b(<TI format>|TRS[A-Z0-9\-/]{10,})\b
RE_SHOPEE_DOC_STRICT ==
    RE_SHOPEE_DOC_TI_FORMAT \o <<RE_SHOPEE_DOC_TRS_FORMAT>>

\* \b(TRS[A-Z0-9\-/]{10,})\s+(\d{4})\s*-\s*(\d{7})\b
RE_SHOPEE_FULL_REFERENCE ==
    <<WordBoundary>> \o ShopeeTrsToken \o
    <<WsPlus, Cls(Digits, 4, 4), WsStar, Lit("-"), WsStar,
      Cls(Digits, 7, 7), WordBoundary>>

shopee_extract_ref_code_anywhere(t) ==
    LET m == Search(RE_SHOPEE_REFERENCE_CODE_FLEX, t)
    IN  IF m.start = 0 THEN <<>>
        ELSE _clean_ref_code(Group(t, m, 2, 2), Group(t, m, 6, 6))

\* doc.upper().startswith("TRS")
StartsWithTRS(doc) ==
    /\ Len(doc) >= 3
    /\ doc[1] \in {"T", "t"}
    /\ doc[2] \in {"R", "r"}
    /\ doc[3] \in {"S", "s"}

\* shopee.py's _compact_ref is job_worker.py's: strip, then drop whitespace
extract_shopee_full_reference(text, filename) ==
    LET t == normalize_text(text)
        fn == normalize_text(filename)
        m_full == Search(RE_SHOPEE_FULL_REFERENCE, t)
        m_ti == SearchAlt(RE_SHOPEE_DOC_TI_FORMAT, t)
        m_trs == Search(RE_SHOPEE_DOC_TRS_FORMAT, t)
        m_strict == SearchAlt(RE_SHOPEE_DOC_STRICT, t)
        ref == shopee_extract_ref_code_anywhere(t)
        f_full == Search(RE_SHOPEE_FULL_REFERENCE, fn)
        f_trs == Search(RE_SHOPEE_DOC_TRS_FORMAT, fn)
        f_ti == SearchAlt(RE_SHOPEE_DOC_TI_FORMAT, fn)
    IN  IF m_full.start # 0
        THEN _compact_ref(Group(t, m_full, 2, 5) \o
                 _clean_ref_code(Group(t, m_full, 7, 7),
                                 Group(t, m_full, 11, 11)))
        ELSE IF m_ti.start # 0 THEN _compact_ref(Whole(t, m_ti))
        ELSE IF m_trs.start # 0 THEN _compact_ref(Whole(t, m_trs) \o ref)
        ELSE IF m_strict.start # 0
        THEN IF StartsWithTRS(Whole(t, m_strict))
             THEN _compact_ref(Whole(t, m_strict) \o ref)
             ELSE _compact_ref(Whole(t, m_strict))
        ELSE IF f_full.start # 0
        THEN _compact_ref(Group(fn, f_full, 2, 5) \o
                 _clean_ref_code(Group(fn, f_full, 7, 7),
                                 Group(fn, f_full, 11, 11)))
        ELSE IF f_trs.start # 0
        THEN _compact_ref(Whole(fn, f_trs) \o
                 shopee_extract_ref_code_anywhere(fn))
        ELSE IF f_ti.start # 0 THEN _compact_ref(Whole(fn, f_ti))
        ELSE <<>>

\* \b([A-Z0-9]{6,20}-\d{5}-\d{2})\b
RE_DOCNO_GENERIC ==
    <<WordBoundary, Cls(AlnumChars, 6, 20), Lit("-"), Cls(Digits, 5, 5),
      Lit("-"), Cls(Digits, 2, 2), WordBoundary>>

\* \b(THMPTI\d{16})\b
RE_LAZADA_DOC_THMPTI ==
    <<WordBoundary, LitI("T", "t"), LitI("H", "h"), LitI("M", "m"),
      LitI("P", "p"), LitI("T", "t"), LitI("I", "i"), Cls(Digits, 16, 16),
      WordBoundary>>

\* Invoice\s*No\.?\s*[:#]?\s*([A-Z0-9\-/]{8,40})
RE_LAZADA_INVOICE_NO_FIELD ==
    <<LitI("I", "i"), LitI("N", "n"), LitI("V", "v"), LitI("O", "o"),
      LitI("I", "i"), LitI("C", "c"), LitI("E", "e"), WsStar,
      LitI("N", "n"), LitI("O", "o"), Opt({"."}), WsStar, Opt(ColonChars),
      WsStar, Cls(DocChars, 8, 40)>>

_build_full_reference_no_space(text) ==
    LET t0 == normalize_text(text)
        t == _squash_spaces_and_newlines(t0)
        m_doc == Search(RE_DOCNO_GENERIC, t)
        m_ref == Search(RE_MMDD_SEQ, t)
        m_thmpti == Search(RE_LAZADA_DOC_THMPTI, t)
        m_inv == Search(RE_LAZADA_INVOICE_NO_FIELD, t0)
    IN  IF m_doc.start # 0 /\ m_ref.start # 0
        THEN Whole(t, m_doc) \o Group(t, m_ref, 2, 2) \o <<"-">> \o
                 Group(t, m_ref, 6, 6)
        ELSE IF m_thmpti.start # 0 THEN Whole(t, m_thmpti)
        ELSE IF m_inv.start # 0
        THEN _squash_spaces_and_newlines(Strip(Group(t0, m_inv, 15, 15)))
        ELSE <<>>

\* SpecRef: the builders on a labelled document number followed by its
\* MMDD-NNNNNNN code, with whitespace inserted between and inside the tokens
InvoiceNoLabel ==
    <<"I", "n", "v", "o", "i", "c", "e", " ", "N", "o", ":", " ">>

RefLabels == {<<>>, InvoiceNoLabel}

\* the document numbers of the modules' docstrings, cut after the first
\* hyphen: RCSPXSPB00-00000-25 and TRSPEMKP00-00000-25
DocHead(platform) ==
    IF platform = "shopee"
    THEN <<"T", "R", "S", "P", "E", "M", "K", "P", "0", "0", "-">>
    ELSE <<"R", "C", "S", "P", "X", "S", "P", "B", "0", "0", "-">>

DocTail == <<"0", "0", "0", "0", "0", "-", "2", "5">>

RefMmdd == <<"1", "2", "1", "8">>

RefSeq7 == <<"0", "0", "0", "1", "5", "9", "3">>

Gaps == {<<>>, <<" ">>, <<"\n">>}

\* the document number and the code are separate tokens in every text
TokenGaps == {<<" ">>, <<"\n">>, <<" ", "\n">>}

RefText(platform, label, g_doc, g_tok, g_pre, g_post) ==
    label \o DocHead(platform) \o g_doc \o DocTail \o g_tok \o RefMmdd \o
    g_pre \o <<"-">> \o g_post \o RefSeq7

RefInputs ==
    {[platform |-> p,
      label |-> l,
      broken |-> (g_doc # <<>>),
      text |-> RefText(p, l, g_doc, g_tok, g_pre, g_post),
      filename |-> <<>>] :
        p \in {"spx", "shopee", "lazada"}, l \in RefLabels,
        g_doc \in Gaps, g_tok \in TokenGaps, g_pre \in Gaps, g_post \in Gaps}

BuildSpxReference ==
    /\ fn_out = NoResult
    /\ fn_in.platform = "spx"
    /\ fn_out' = [ref |-> extract_spx_full_reference(fn_in.text, fn_in.filename)]
    /\ UNCHANGED <<job, rows, threads, spawned, hist, fn_in>>

BuildShopeeReference ==
    /\ fn_out = NoResult
    /\ fn_in.platform = "shopee"
    /\ fn_out' =
           [ref |-> extract_shopee_full_reference(fn_in.text, fn_in.filename)]
    /\ UNCHANGED <<job, rows, threads, spawned, hist, fn_in>>

BuildLazadaReference ==
    /\ fn_out = NoResult
    /\ fn_in.platform = "lazada"
    /\ fn_out' = [ref |-> _build_full_reference_no_space(fn_in.text)]
    /\ UNCHANGED <<job, rows, threads, spawned, hist, fn_in>>

InitRef ==
    /\ job = NewJob(NoCfg)
    /\ rows = <<>>
    /\ threads = [t \in Workers |-> IdleThread]
    /\ spawned = 0
    /\ hist = [cancel_at |-> 0]
    /\ fn_in \in RefInputs
    /\ fn_out = NoResult

NextRef == BuildSpxReference \/ BuildShopeeReference \/ BuildLazadaReference

SpecRef == InitRef /\ [][NextRef]_vars

\* ------------------------------------------------------- cleanup_expired
\* job_service.py cleanup_expired and the timestamps it reads.  In SpecTtl
\* the job record holds the fields the cleanup and the life cycle read:
\* state, error_files and the timestamps, a timestamp being a clock reading
\* and 0 the empty string a job is created with.  hist carries the clock
\* (time.time(), datetime.now()), the service's _ttl_seconds and whether the
\* job id is still a key of _jobs and _rows.
MaxClock == 4
MaxTtl == 2

TtlJob(now) ==
    [state |-> "queued", error_files |-> 0,
     created_at |-> now, updated_at |-> now,
     started_at |-> 0, finished_at |-> 0]

\* job.get("_finished_at") or job.get("updated_at") or job.get("created_at")
ExpiryStamp(j) ==
    IF j.finished_at # 0 THEN j.finished_at
    ELSE IF j.updated_at # 0 THEN j.updated_at
    ELSE j.created_at

\* the job is put on to_delete
Expired(j, now, ttl) == (now - ExpiryStamp(j)) > ttl

\* time passes between two calls
Tick ==
    /\ hist.now < MaxClock
    /\ hist' = [hist EXCEPT !.now = @ + 1]
    /\ UNCHANGED <<job, rows, threads, spawned, fn_in, fn_out>>

set_ttl_seconds(ttl_seconds) ==
    /\ hist' = [hist EXCEPT !.ttl = IF ttl_seconds < 0 THEN 0 ELSE ttl_seconds]
    /\ UNCHANGED <<job, rows, threads, spawned, fn_in, fn_out>>

\* start_processing, its state and timestamps; the thread it starts takes
\* the steps TtlUpdateFile, TtlAppendRows and TtlRunJobEnd
TtlStartProcessing ==
    /\ hist.live
    /\ job.state \notin {"processing", "done", "cancelled"}
    /\ job' = [job EXCEPT !.state = "processing",
                          !.started_at = hist.now,
                          !.updated_at = hist.now]
    /\ UNCHANGED <<rows, threads, spawned, hist, fn_in, fn_out>>

\* update_file / update_job of the worker: the patch, here the error
\* counter, and updated_at
TtlUpdateFile ==
    /\ job.state = "processing"
    /\ IF hist.live
       THEN \E err \in {0, 1} :
               job' = [job EXCEPT !.error_files = err,
                                  !.updated_at = hist.now]
       ELSE UNCHANGED job
    /\ UNCHANGED <<rows, threads, spawned, hist, fn_in, fn_out>>

\* append_rows of the worker: no timestamp is written
TtlAppendRows ==
    /\ job.state = "processing"
    /\ Len(rows) < MaxFiles
    /\ IF hist.live
       THEN rows' = Append(rows, [seq |-> Len(rows) + 1])
       ELSE UNCHANGED rows
    /\ UNCHANGED <<job, threads, spawned, hist, fn_in, fn_out>>

\* _run_job after process_job_files has returned
TtlRunJobEnd ==
    /\ hist.live
    /\ job.state = "processing"
    /\ job' = [job EXCEPT
                 !.state = IF job.error_files = 0 THEN "done" ELSE "error",
                 !.finished_at = hist.now,
                 !.updated_at = hist.now]
    /\ UNCHANGED <<rows, threads, spawned, hist, fn_in, fn_out>>

cleanup_expired ==
    /\ hist.ttl > 0
    /\ hist.live
    /\ IF Expired(job, hist.now, hist.ttl)
       THEN /\ hist' = [hist EXCEPT !.live = FALSE]
            /\ rows' = <<>>
       ELSE UNCHANGED <<hist, rows>>
    /\ UNCHANGED <<job, threads, spawned, fn_in, fn_out>>

InitTtl ==
    /\ job = TtlJob(1)
    /\ rows = <<>>
    /\ threads = [t \in Workers |-> IdleThread]
    /\ spawned = 0
    /\ hist = [cancel_at |-> 0, now |-> 1, ttl |-> 0, live |-> TRUE]
    /\ fn_in = NoResult
    /\ fn_out = NoResult

NextTtl ==
    \/ Tick
    \/ \E ttl_seconds \in 0..MaxTtl : set_ttl_seconds(ttl_seconds)
    \/ TtlStartProcessing
    \/ TtlUpdateFile
    \/ TtlAppendRows
    \/ TtlRunJobEnd
    \/ cleanup_expired

SpecTtl == InitTtl /\ [][NextTtl]_vars

\* ------------------------------------------------------------------ claims
NoFileError == \A i \in 1..Len(job.files) : job.files[i].state # "error"

\* C1: once cancel_job has put the job in state cancelled, no later step
\* changes the job's state.
C1_CancelledIsTerminal ==
    [][job.state = "cancelled" => job'.state = "cancelled"]_vars

\* C2: every file a started worker was given reaches done, needs_review or
\* error; stated for the end of the worker's thread: when the thread has
\* ended, none of its files is still queued or processing.
C2_EveryFileEnds ==
    \A t \in Workers :
        threads[t].pc = "finished" =>
            \A i \in 1..Len(threads[t].payloads) :
                job.files[i].state \in FileTerminal

\* sum of rows_count over file records
RECURSIVE SumRowsCount(_)
SumRowsCount(fs) ==
    IF fs = <<>> THEN 0 ELSE fs[1].rows_count + SumRowsCount(Tail(fs))

\* C3: when the worker pass has finished, the rows_count of the file records
\* add up to the number of rows, and every file of the pass has a row.
C3_RowCountFloor ==
    \A t \in Workers :
        threads[t].pc = "finished" =>
            /\ SumRowsCount(job.files) = Len(rows)
            /\ \A i \in 1..Len(threads[t].payloads) :
                  \E k \in 1..Len(rows) : rows[k].file = i

\* C4: after the first pass over N files the rows carry A_seq 1..N in
\* row-list order and the k-th row belongs to the k-th file.
C4_SeqFollowsFileOrder ==
    (spawned = 1 /\ threads[1].pc = "finished") =>
        /\ Len(rows) = Len(threads[1].payloads)
        /\ \A k \in 1..Len(rows) : rows[k].A_seq = k /\ rows[k].file = k

JobEdges ==
    { <<"queued", "processing">>, <<"processing", "done">>,
      <<"processing", "error">>, <<"queued", "cancelled">>,
      <<"processing", "cancelled">> }

C8_State ==
    \A t \in Workers :
        /\ threads[t].pc # "run_except"
        /\ \A i \in threads[t].raised :
              LET R == {k \in 1..Len(rows) : rows[k].by = t /\ rows[k].file = i}
              IN  Cardinality(R) = 1 /\ \A k \in R : rows[k].status = "ERROR"
        /\ threads[t].pc \in {"run_post", "finished"} =>
              threads[t].ended = 1..Len(threads[t].payloads)

C8_Step ==
    \A t \in Workers :
        (threads[t].pc = "update_file" /\ threads'[t].pc = "update_counters") =>
            LET i == threads[t].idx + 1
            IN  /\ job'.files[i].state \in FileTerminal
                /\ i \in threads[t].raised =>
                      /\ job'.files[i].state = "error"
                      /\ job'.files[i].rows_count = 1

C9_StatusOfFileWithText ==
    /\ \A k \in 1..Len(rows) :
          rows[k].had_text =>
              rows[k].status = IF rows[k].errors # {} THEN "NEEDS_REVIEW"
                               ELSE "OK"
    /\ \A t \in Workers :
          (threads[t].pc = "update_file" /\ rows # <<>>
             /\ rows[Len(rows)].by = t /\ rows[Len(rows)].had_text) =>
              threads[t].patch.state =
                  IF rows[Len(rows)].status = "OK" THEN "done"
                  ELSE "needs_review"

\* C10: _cfg_mismatch reports a mismatch exactly when some non-empty
\* allow-list is failed: by a known value that is not in it, or by an unknown
\* value under strict_mode; with allowed_companies = ["RABBIT"] an
\* undetectable company is flagged exactly under strict_mode.
C10_FilterAsymmetry ==
    fn_out # NoResult =>
        LET c == UpperStrip(fn_in.company)
            p == UpperStrip(fn_in.platform_u)
            company_fails ==
                /\ fn_in.allowed_companies # {}
                /\ IF c # "" THEN c \notin fn_in.allowed_companies
                   ELSE fn_in.strict_mode
            platform_fails ==
                /\ fn_in.allowed_platforms # {}
                /\ IF p # "" /\ p # "UNKNOWN"
                   THEN p \notin fn_in.allowed_platforms
                   ELSE fn_in.strict_mode
        IN  /\ fn_out.mismatch <=> (company_fails \/ platform_fails)
            /\ (fn_in.allowed_companies = {"RABBIT"}
                  /\ fn_in.allowed_platforms = {} /\ c = "") =>
                   (fn_out.mismatch <=> fn_in.strict_mode)

C10_Witness ==
    /\ fn_out # NoResult
    /\ fn_in.allowed_companies = {"RABBIT"}
    /\ fn_in.allowed_platforms = {}
    /\ fn_in.company = ""
    /\ fn_in.strict_mode
    /\ fn_out.mismatch

\* C11: a job created or started with strictMode true and the company
\* allow-list RABBIT (the one configuration of CfgInputs) flags a file whose
\* company cannot be detected: the row the worker makes for such a file in
\* its filter-checking branches carries the strict-mode company reason.
C11_StrictModeReachesWorker ==
    \A t \in Workers :
        (/\ threads[t].pc = "update_file"
         /\ threads[t].allowed_companies = {"RABBIT"}
         /\ threads[t].company = ""
         /\ rows # <<>>
         /\ rows[Len(rows)].by = t
         /\ rows[Len(rows)].status # "ERROR") =>
            "company=unknown (strict mode)" \in rows[Len(rows)].errors

\* C12: a row is appended after its (last) _normalize_row_fields, and there
\* P_wht is the empty string whatever the extractor left in it; the AI merge
\* leaves P_wht as it was, also when the patch holds a P_wht.
C12_WhtAlwaysBlank ==
    fn_out # NoResult =>
        /\ fn_out.pc \in {"normalized", "final"} => fn_out.row.P_wht = <<>>
        /\ fn_out.pc = "merged" => fn_out.row.P_wht = fn_out.before.P_wht

C12_Witness ==
    /\ fn_out # NoResult
    /\ fn_out.pc = "final"
    /\ fn_in.P_wht = <<"3", "%">>
    /\ fn_out.call.called
    /\ "P_wht" \in DOMAIN fn_out.call.ai_patch
    /\ fn_out.row.L_description = <<"y">>
    /\ fn_out.row.P_wht = <<>>

HasWs(s) == \E i \in 1..Len(s) : s[i] \in Ws

\* C13: after _normalize_row_fields C_reference equals G_invoice_no and
\* neither holds a whitespace character.
C13_ReferenceEqualsInvoiceNo ==
    (fn_out # NoResult /\ fn_out.pc \in {"normalized", "final"}) =>
        /\ fn_out.row.C_reference = fn_out.row.G_invoice_no
        /\ ~HasWs(fn_out.row.C_reference)
        /\ ~HasWs(fn_out.row.G_invoice_no)

\* C14: _normalize_row_fields applied to a row it has produced returns that
\* row.
C14_NormalizeIdempotent ==
    (fn_out # NoResult /\ fn_out.pc = "normalized") =>
        _normalize_row_fields(fn_out.row) = fn_out.row

\* C15: when the generic amount extractor is consulted and its total
\* candidate denotes the withholding amount the platform's own remark pattern
\* detected (same text, or same number in another spelling), the candidate
\* is not taken as the total, so N_unit_price and R_paid_amount do not come
\* out as that amount from the generic extractor.
C15_GenericTotalNeverWht ==
    (fn_out # NoResult /\ fn_out.consulted /\ ~fn_in.wht_amount.empty
       /\ ~fn_in.a.total.empty /\ fn_in.a.total.v = fn_in.wht_amount.v) =>
        fn_out.source # "generic"

\* C16: the D_vendor_code an extractor writes is a Cxxxxx code or the
\* sentinel Unknown, never the bare platform name.
C16_VendorCodeNeverPlatformName ==
    (fn_out # NoResult /\ fn_in.fn \in {"shopee", "lazada", "spx"}) =>
        /\ fn_out.code \in CCodes \cup {"Unknown"}
        /\ fn_out.code \notin {"Shopee", "Lazada", "SPX"}

\* C17: for a known client and a vendor given by a canonical vendor tax id
\* or by a vendor name, get_vendor_code returns a Cxxxxx code; it returns
\* Unknown only for an unknown client or an unidentifiable vendor, never a
\* platform name; TopOne with SPX gives C00038.
C17_KnownPairResolves ==
    (fn_out # NoResult /\ fn_in.fn = "get_vendor_code") =>
        LET known == fn_in.client_tax_id.digits \in {CLIENT_RABBIT, CLIENT_SHD, CLIENT_TOPONE}
            identified == \/ fn_in.vendor_tax_id.digits \in CanonicalVendors
                          \/ fn_in.vendor_name.keys # {}
        IN  /\ (known /\ identified) => fn_out.code \in CCodes
            /\ fn_out.code \in CCodes \cup {"Unknown"}
            /\ (fn_in.client_tax_id.digits = CLIENT_TOPONE
                  /\ fn_in.vendor_tax_id.digits = VENDOR_SPX) => fn_out.code = "C00038"

\* the minimum score at which the resolution accepts a label
Threshold(p) == IF p \in {"spx", "lazada"} THEN 40 ELSE IF p = "ads" THEN 60 ELSE 30
Scored == fn_out # NoResult /\ ~fn_in.empty /\ fast_path(fn_in) = ""

\* C18: with no strong-id fast path, classify_platform returns a label of
\* maximum score whenever that score meets the label's threshold, and never
\* a platform whose score is lower than another platform's.
C18_MaxScoreWins ==
    Scored =>
        LET best == FirstMax(ScoreLabels, fn_out.score)
        IN  /\ fn_out.score[best] >= Threshold(best) => fn_out.score[fn_out.label] = fn_out.score[best]
            /\ fn_out.label \in SoftPlatforms =>
                   \A q \in SoftPlatforms : fn_out.score[q] <= fn_out.score[fn_out.label]

\* C19 as stated: 'ads' is returned only when the ads score is at least 60
\* and strictly greater than every other score.
C19_AdsOnlyFrom60 ==
    (fn_out # NoResult /\ fn_out.label = "ads") =>
        /\ fn_out.score.ads >= 60
        /\ \A q \in SoftPlatforms : fn_out.score.ads > fn_out.score[q]

\* C19 amended: 'ads' is returned only when the ads score is strictly
\* greater than every other score and at least the low-confidence floor 25;
\* an ads score of 45 is returned as 'ads' by the modest-confidence branch.
C19_AdsOnlyWhenStrictlyBest ==
    (fn_out # NoResult /\ fn_out.label = "ads") =>
        /\ fn_out.score.ads >= 25
        /\ \A q \in SoftPlatforms : fn_out.score.ads > fn_out.score[q]

\* C19 witness: 'ads' returned for an ads score of 45 while another platform
\* has a positive score below its threshold
C19_Witness ==
    /\ fn_out # NoResult
    /\ fn_out.label = "ads"
    /\ fn_out.score.ads = 45
    /\ fn_out.score.spx > 0

\* the number of file records of the job in one of the given states
FilesIn(states) == Cardinality({i \in 1..Len(job.files) : job.files[i].state \in states})

C21_State ==
    \A t \in Workers : \A k \in 1..Len(rows) :
        (rows[k].by = t /\ ~rows[k].had_text) =>
            /\ rows[k].status = "NEEDS_REVIEW"
            /\ "no text found" \in rows[k].errors
            /\ Cardinality({m \in 1..Len(rows) : rows[m].by = t /\ rows[m].file = rows[k].file}) = 1

C21_Step ==
    \A t \in Workers :
        (/\ threads[t].pc = "try"
         /\ threads'[t].pc = "update_file"
         /\ ~rows'[Len(rows')].had_text) =>
            /\ Len(rows') = Len(rows) + 1
            /\ rows'[Len(rows')].file = threads[t].idx + 1
            /\ threads'[t].review_files = threads[t].review_files + 1
            /\ threads'[t].error_files = threads[t].error_files
            /\ threads'[t].ok_files = threads[t].ok_files
            /\ threads'[t].patch.state = "needs_review"
            /\ threads'[t].patch.rows_count = 1

\* the update_file of the pass that found no text leaves the file record
\* needs_review with rows_count 1
C21_Record ==
    \A t \in Workers :
        (/\ threads[t].pc = "update_file"
         /\ threads'[t].pc = "update_counters"
         /\ \E k \in 1..Len(rows) :
               /\ rows[k].by = t
               /\ rows[k].file = threads[t].idx + 1
               /\ ~rows[k].had_text) =>
            /\ job'.files[threads[t].idx + 1].state = "needs_review"
            /\ job'.files[threads[t].idx + 1].rows_count = 1

C22_UnitPriceEqualsPaidAmount ==
    (fn_out # NoResult /\ "N_unit_price" \in DOMAIN fn_out /\ ~fn_out.total_inc_vat.empty) =>
        /\ fn_out.N_unit_price = fn_out.total_inc_vat
        /\ fn_out.R_paid_amount = fn_out.total_inc_vat

\* C27: when no total including VAT is found, derived or taken from the
\* generic fallback but an ex-VAT total was found, R_paid_amount is the
\* ex-VAT total.
C27_ExVatIsLastResort ==
    (/\ fn_out # NoResult
     /\ "R_paid_amount" \in DOMAIN fn_out
     /\ fn_out.source \in {"none", "ex_vat"}
     /\ ~fn_out.total_ex_vat.empty) =>
        fn_out.R_paid_amount = fn_out.total_ex_vat

\* C23: in the merge of an AI patch, a field that is non-empty and non-zero
\* is not changed when AI_ONLY_FILL_EMPTY is set; when it is not set, such a
\* field is changed only if the row had recorded errors before the call; a
\* patch entry whose value is empty changes no field.
C23_AiMergePolicy ==
    (fn_out # NoResult /\ fn_out.pc = "merged" /\ fn_out.call.called) =>
        \A k \in RowKeys :
            /\ (_safe_str(fn_out.before[k]) \notin ZeroStrings /\ fn_out.row[k] # fn_out.before[k]) =>
                   ~fn_out.call.ai_only_fill_empty /\ fn_out.call.errors
            /\ (k \in DOMAIN fn_out.call.ai_patch /\ _safe_str(fn_out.call.ai_patch[k]) = <<>>) =>
                   fn_out.row[k] = fn_out.before[k]

\* C23 witness: with errors recorded and AI_ONLY_FILL_EMPTY set, a patch that
\* holds C_reference 'Z' leaves C_reference 'A' as it was
C23_Witness ==
    /\ fn_out # NoResult
    /\ fn_out.pc = "merged"
    /\ fn_out.call.called
    /\ fn_out.call.ai_only_fill_empty
    /\ fn_out.call.errors
    /\ "C_reference" \in DOMAIN fn_out.call.ai_patch
    /\ fn_out.before.C_reference = <<"A">>
    /\ fn_out.row.C_reference = <<"A">>

C25_PriceTypeCoerced ==
    (fn_out # NoResult /\ fn_out.pc = "normalized") =>
        /\ fn_out.row.J_price_type \in {<<"1">>, <<"2">>, <<"3">>}
        /\ _safe_str(fn_in.J_price_type) \notin {<<"1">>, <<"2">>, <<"3">>} =>
               fn_out.row.J_price_type = <<"1">>

\* C26: reference gluing is whitespace-invariant.  For a document number
\* followed by its MMDD-NNNNNNN code, each builder returns, for every way of
\* inserting spaces and line breaks into the text (a break inside the
\* document number included), the whitespace-free reference it returns for
\* the text that holds one space between the two tokens and none elsewhere.
RefBaseText(x) == RefText(x.platform, x.label, <<>>, <<" ">>, <<>>, <<>>)

BuildReference(platform, text) ==
    CASE platform = "spx" -> extract_spx_full_reference(text, <<>>)
      [] platform = "shopee" -> extract_shopee_full_reference(text, <<>>)
      [] OTHER -> _build_full_reference_no_space(text)

C26_ReferenceGluingWhitespaceInvariant ==
    fn_out # NoResult =>
        /\ fn_out.ref = BuildReference(fn_in.platform, RefBaseText(fn_in))
        /\ \A i \in 1..Len(fn_out.ref) : fn_out.ref[i] \notin Ws

\* C28: in every reachable state total_files is the number of file records
\* and the number of stored payloads.  A step that stores a payload adds one
\* payload, one file record and one to total_files and keeps what was
\* there; while the job is processing or done no step changes any of the
\* three (an add_file in those states leaves the job as it is).
C28_State ==
    /\ job.total_files = Len(job.files)
    /\ job.total_files = Len(job.payloads)

C28_Step ==
    /\ job.state \in {"processing", "done"} =>
          /\ job'.total_files = job.total_files
          /\ job'.payloads = job.payloads
          /\ Len(job'.files) = Len(job.files)
    /\ (\/ job'.payloads # job.payloads
        \/ job'.total_files # job.total_files
        \/ Len(job'.files) # Len(job.files)) =>
          /\ job'.total_files = job.total_files + 1
          /\ Len(job'.payloads) = Len(job.payloads) + 1
          /\ SubSeq(job'.payloads, 1, Len(job.payloads)) = job.payloads
          /\ Len(job'.files) = Len(job.files) + 1
          /\ SubSeq(job'.files, 1, Len(job.files)) = job.files
          /\ job'.files[Len(job'.files)].state = "queued"
          /\ job'.files[Len(job'.files)].rows_count = 0
          /\ job' = [job EXCEPT !.total_files = job'.total_files,
                                !.payloads = job'.payloads,
                                !.files = job'.files]

C28_FileCountsAgree == []C28_State /\ [][C28_Step]_vars

\* C28 witness: one file was accepted and the job is processing with room
\* for another, which add_file refuses
C28_Witness ==
    /\ job.state = "processing"
    /\ job.total_files = 1
    /\ Len(job.files) = 1
    /\ Len(job.payloads) = 1
    /\ Len(job.files) < MaxFiles

\* C29: cleanup_expired never removes a job whose state is processing: no
\* step takes a job that is processing out of _jobs, or its rows out of
\* _rows.
C29_ProcessingJobIsNeverPurged ==
    [][(hist.live /\ job.state = "processing") => hist'.live]_vars

====
